---- MODULE Spec2Model ----
(***************************************************************************)
(* The playback-buffer / ABR control loop of the two streaming clients:    *)
(*   streaming/quic_client.py  (multiplexed streams, hysteresis ABR)       *)
(*   streaming/dash_client.py  (chunked HTTP, threshold ABR)               *)
(*                                                                         *)
(* Time is counted in whole seconds.  A value the Python code holds as     *)
(* "None or a number" is a sequence here: << >> for None, <<x>> for x.     *)
(* A throughput or RTT sample is an exact fraction <<n, d>> in lowest      *)
(* terms with d > 0; throughputs and goodputs are held in kbit/s (the      *)
(* code's bit/s value divided by 1000), RTTs in seconds.                   *)
(***************************************************************************)
EXTENDS Integers, Sequences, FiniteSets, TLC

VARIABLES
    now,                \* time.time(): the wall clock
    qmc,                \* quic_client.MetricsCalculator instance
    dmc,                \* dash_client.MetricsCalculator instance
    qobs,               \* what an observer of qmc's update_buffer calls has seen
    dobs,               \* what an observer of dmc's update_buffer calls has seen
    pc,                 \* position of VideoStreamClient.run / request_next_segment
    current_bitrate,    \* VideoStreamProtocol.current_bitrate
    segment_index,      \* VideoStreamProtocol.segment_index
    current_stream_id,  \* VideoStreamProtocol.current_stream_id
    transfer_complete,  \* VideoStreamProtocol.transfer_complete (asyncio.Event)
    received_bytes,     \* VideoStreamProtocol.received_bytes
    video_data,         \* len(VideoStreamProtocol.video_data)
    segment_start_time, \* VideoStreamProtocol.segment_start_time
    last_chunk_time,    \* VideoStreamProtocol.last_chunk_time
    next_stream_id,     \* the QUIC connection's next available stream id
    requests,           \* the GET requests sent so far, in order
    stream_chunks,      \* StreamDataReceived events delivered on the current stream
    events_delivered,   \* StreamDataReceived events delivered on the requests' streams so far
    stream_fin,         \* one of them had end_stream set
    stray_event,        \* the last step delivered an event of another stream
    seg_snapshot,       \* the buffer fields of qmc when the current segment was requested
    d_pc,               \* position of the dash_client.py script
    d_i,                \* the script's loop variable i
    current_rep,        \* index in representations of the script's current_rep
    d_start_time,       \* the script's start_time / init_start
    d_requests,         \* the segment GETs the script has sent so far, in order
    self_bitrates,      \* VideoStreamProtocol.bitrates
    probe,              \* the argument of the construction, then what a driver last applied
    run,                \* VideoStreamClient.run: its phase and the summaries it has emitted
    results_dir,        \* the files of the results directory: file name -> rows after the header
    calculators,        \* the MetricsCalculator instances created one after another by a driver
    server              \* quic_server.py: the VideoStreamHandler's handle_stream_data tasks

vars == <<now, qmc, dmc, qobs, dobs, pc, current_bitrate, segment_index,
          current_stream_id, transfer_complete, received_bytes, video_data,
          segment_start_time, last_chunk_time, next_stream_id, requests,
          stream_chunks, events_delivered, stream_fin, stray_event, seg_snapshot, d_pc, d_i, current_rep,
          d_start_time, d_requests, self_bitrates, probe, run, results_dir,
          calculators, server>>

calcVars == <<qmc, dmc, qobs, dobs>>
quicVars == <<pc, current_bitrate, segment_index, current_stream_id,
              transfer_complete, received_bytes, video_data, segment_start_time,
              last_chunk_time, next_stream_id, requests, stream_chunks, events_delivered, stream_fin,
              stray_event, seg_snapshot>>
dashVars == <<d_pc, d_i, current_rep, d_start_time, d_requests>>
sessionVars == <<run, results_dir, calculators>>
serverVars == <<server>>
setupVars == <<self_bitrates, probe, sessionVars, serverVars>>

(***************************************************************************)
(* Bounds of the model.                                                    *)
(***************************************************************************)
MaxUpdates == 4      \* update_buffer calls in one run of the buffer driver
MaxElapsed == 3      \* largest elapsed time handed to update_buffer by the driver
MaxLag == 1          \* largest advance of the clock during one call or wait

(***************************************************************************)
(* Program constants.                                                      *)
(***************************************************************************)
SegmentDuration == 2
ThroughputWindow == 5
RttWindow == 10
SmallSegmentBytes == 10000
WaitTimeout == 30

None == << >>

Max(a, b) == IF a >= b THEN a ELSE b
Abs(a) == IF a < 0 THEN 0 - a ELSE a

(***************************************************************************)
(* Exact fractions, standing for the Python floats.                        *)
(***************************************************************************)
RECURSIVE GCD(_, _)
GCD(a, b) == IF b = 0 THEN a ELSE GCD(b, a % b)

Rat(n, d) == LET g == GCD(Abs(n), d) IN <<n \div g, d \div g>>
RInt(n) == <<n, 1>>
\* the operations divide out common factors before they multiply
RAdd(x, y) ==
    LET g == GCD(x[2], y[2])
    IN Rat(x[1] * (y[2] \div g) + y[1] * (x[2] \div g), (x[2] \div g) * y[2])
RSub(x, y) == RAdd(x, <<0 - y[1], y[2]>>)
RAbs(x) == <<Abs(x[1]), x[2]>>
RLess(x, y) ==
    LET g == GCD(x[2], y[2])
    IN x[1] * (y[2] \div g) < y[1] * (x[2] \div g)
RMin(x, y) == IF RLess(y, x) THEN y ELSE x
\* x / y for x >= 0 and y > 0
RDiv(x, y) ==
    LET gn == GCD(x[1], y[1])
        gd == GCD(x[2], y[2])
    IN Rat((x[1] \div gn) * (y[2] \div gd), (x[2] \div gd) * (y[1] \div gn))

\* A data rate is held in kbit/s: the fraction is the code's bit/s value / 1000.
Rate(bits, seconds) == Rat(bits, seconds * 1000)
Kbps(bps) == Rat(bps, 1000)

RECURSIVE RSum(_)
RSum(s) == IF s = << >> THEN RInt(0) ELSE RAdd(s[1], RSum(Tail(s)))

\* sum(h) / len(h), or 0 for an empty h
mean(h) == IF h = << >> THEN RInt(0) ELSE RDiv(RSum(h), RInt(Len(h)))

\* deque_append refusing the new sample when the window is full
deque_append_keep_oldest(s, x, maxlen) ==
    IF Len(s) >= maxlen THEN s ELSE Append(s, x)

\* collections.deque(maxlen=n).append(x)
deque_append(s, x, maxlen) ==
    LET t == Append(s, x) IN IF Len(t) > maxlen THEN Tail(t) ELSE t


(***************************************************************************)
(* quic_client.MetricsCalculator                                           *)
(***************************************************************************)
QuicMetricsCalculator ==
    [ segment_duration           |-> SegmentDuration,
      segment_metrics            |-> << >>,
      throughput_history         |-> << >>,
      rtt_history                |-> << >>,
      buffer_level               |-> 0,
      rebuffering_count          |-> 0,
      total_rebuffering_duration |-> 0,
      rebuffering_start_time     |-> None,
      playback_position          |-> 0,
      bitrate_switches           |-> 0,
      previous_bitrate           |-> 0,
      metrics_file               |-> << >> ]   \* the rows after the header row

\* returns the calculator after the call and the value returned
quic_calculate_throughput(mc, data_size, download_time) ==
    IF download_time <= 0
    THEN [mc |-> mc, value |-> RInt(0)]
    ELSE LET throughput == Rate(data_size * 8, download_time)
         IN [mc |-> [mc EXCEPT !.throughput_history =
                         deque_append(@, throughput, ThroughputWindow)],
             value |-> throughput]

quic_get_smoothed_throughput(mc) == mean(mc.throughput_history)

quic_estimate_rtt(mc, download_time, segment_size) ==
    LET rtt == IF segment_size < SmallSegmentBytes
               THEN RInt(download_time)
               ELSE Rat(download_time, 10)
    IN [mc |-> [mc EXCEPT !.rtt_history = deque_append(@, rtt, RttWindow)],
        value |-> rtt]

quic_get_smoothed_rtt(mc) == mean(mc.rtt_history)

\* quic_debit without the max(0, ...)
quic_debit_unclamped(buffer_level, download_time) ==
    IF buffer_level > 0 THEN buffer_level - download_time ELSE buffer_level

\* "Simulate playback consuming buffer"
quic_debit(buffer_level, download_time) ==
    IF buffer_level > 0 THEN Max(0, buffer_level - download_time) ELSE buffer_level

\* quic_stall_starts without the test of rebuffering_start_time
quic_stall_starts_unguarded(buffer_level, rebuffering_start_time) ==
    buffer_level <= 0

\* "Check for rebuffering start"
quic_stall_starts(buffer_level, rebuffering_start_time) ==
    buffer_level <= 0 /\ rebuffering_start_time = None

\* quic_credit without the test of is_segment_complete
quic_credit_always(buffer_level, is_segment_complete, segment_duration) ==
    buffer_level + segment_duration

\* "Add segment to buffer when complete"
quic_credit(buffer_level, is_segment_complete, segment_duration) ==
    IF is_segment_complete THEN buffer_level + segment_duration ELSE buffer_level

\* quic_stall_end with "=" for "+="
quic_stall_end_overwrite(mc, t_close) ==
    IF mc.rebuffering_start_time /= None /\ mc.buffer_level > 0
    THEN [mc EXCEPT !.total_rebuffering_duration =
                        t_close - mc.rebuffering_start_time[1],
                    !.rebuffering_start_time = None]
    ELSE mc

\* quic_stall_end that leaves rebuffering_start_time set
quic_stall_end_keeps_mark(mc, t_close) ==
    IF mc.rebuffering_start_time /= None /\ mc.buffer_level > 0
    THEN [mc EXCEPT !.total_rebuffering_duration =
                        @ + (t_close - mc.rebuffering_start_time[1])]
    ELSE mc

\* "Check for rebuffering end": the fields after the check
quic_stall_end(mc, t_close) ==
    IF mc.rebuffering_start_time /= None /\ mc.buffer_level > 0
    THEN [mc EXCEPT !.total_rebuffering_duration =
                        @ + (t_close - mc.rebuffering_start_time[1]),
                    !.rebuffering_start_time = None]
    ELSE mc

\* t_mark and t_close are what time.time() returns at the two places that read it
quic_update_buffer(mc, download_time, is_segment_complete, t_mark, t_close) ==
    LET debited == quic_debit(mc.buffer_level, download_time)
        starts == quic_stall_starts(debited, mc.rebuffering_start_time)
        marked == [mc EXCEPT
                     !.buffer_level = quic_credit(debited, is_segment_complete,
                                                  mc.segment_duration),
                     !.rebuffering_start_time = IF starts THEN <<t_mark>> ELSE @,
                     !.rebuffering_count = IF starts THEN @ + 1 ELSE @]
    IN [mc |-> quic_stall_end(marked, t_close), was_rebuffering |-> starts]

\* quic_bitrate_switch without the test of previous_bitrate != 0
quic_bitrate_switch_unguarded(previous_bitrate, bitrate) ==
    IF bitrate /= previous_bitrate THEN 1 ELSE 0

\* "Track bitrate switches"
quic_bitrate_switch(previous_bitrate, bitrate) ==
    IF previous_bitrate /= 0 /\ bitrate /= previous_bitrate THEN 1 ELSE 0

\* the goodput taken to be the nominal bitrate, whatever was measured
quic_goodput_nominal(throughput, bitrate) ==
    IF bitrate > 0 THEN Kbps(bitrate) ELSE throughput

quic_goodput(throughput, bitrate) ==
    IF bitrate > 0 THEN RMin(throughput, Kbps(bitrate)) ELSE throughput

quic_packet_loss_estimate(throughput_history, throughput) ==
    IF Len(throughput_history) > 1
    THEN LET avg_throughput == mean(throughput_history)
         IN IF RLess(RInt(0), avg_throughput)
            THEN RMin(RDiv(RAbs(RSub(throughput, avg_throughput)), avg_throughput),
                      RInt(1))
            ELSE RInt(0)
    ELSE RInt(0)

quic_playback_position(mc, seg_index, is_complete) ==
    IF is_complete THEN seg_index * mc.segment_duration ELSE mc.playback_position

\* the row _save_metrics_to_csv writes for a metrics record
quic_csv_row(metrics) ==
    << metrics.timestamp, metrics.segment_index, metrics.bitrate,
       metrics.segment_size_bytes, metrics.download_time_sec, metrics.throughput_bps,
       metrics.smoothed_throughput_bps, metrics.rtt_estimate_sec,
       metrics.buffer_level_sec, metrics.rebuffering_count,
       metrics.total_rebuffering_duration_sec, metrics.playback_position_sec,
       metrics.is_rebuffering, metrics.bitrate_switch, metrics.goodput_bps,
       metrics.packet_loss_estimate >>

\* quic_save_metrics_to_csv opening the file with 'w'
quic_save_metrics_to_csv_truncating(mc, metrics) ==
    [mc EXCEPT !.metrics_file = <<quic_csv_row(metrics)>>]

\* _save_metrics_to_csv: open(self.metrics_file, 'a'), one writerow, close
quic_save_metrics_to_csv(mc, metrics) ==
    [mc EXCEPT !.metrics_file = Append(@, quic_csv_row(metrics))]

\* record_segment_metrics up to and including self.segment_metrics.append(metrics).
\* The record keeps the is_complete argument next to the sixteen columns of the
\* metrics row, so that the kind of each observation can be read from the log.
quic_record_in_memory(mc, seg_index, bitrate, segment_size, download_time, timestamp, is_complete, t_mark, t_close) ==
    LET tp == quic_calculate_throughput(mc, segment_size, download_time)
        smoothed_throughput == quic_get_smoothed_throughput(tp.mc)
        rt == quic_estimate_rtt(tp.mc, download_time, segment_size)
        smoothed_rtt == quic_get_smoothed_rtt(rt.mc)
        ub == quic_update_buffer(rt.mc, download_time, is_complete, t_mark, t_close)
        position == quic_playback_position(ub.mc, seg_index, is_complete)
        switch == quic_bitrate_switch(mc.previous_bitrate, bitrate)
        metrics ==
          [ timestamp                      |-> timestamp,
            segment_index                  |-> seg_index,
            bitrate                        |-> bitrate,
            segment_size_bytes             |-> segment_size,
            download_time_sec              |-> download_time,
            throughput_bps                 |-> tp.value,
            smoothed_throughput_bps        |-> smoothed_throughput,
            rtt_estimate_sec               |-> smoothed_rtt,
            buffer_level_sec               |-> ub.mc.buffer_level,
            rebuffering_count              |-> ub.mc.rebuffering_count,
            total_rebuffering_duration_sec |-> ub.mc.total_rebuffering_duration,
            playback_position_sec          |-> position,
            is_rebuffering                 |-> ub.was_rebuffering,
            bitrate_switch                 |-> switch,
            goodput_bps                    |-> quic_goodput(tp.value, bitrate),
            packet_loss_estimate           |->
                quic_packet_loss_estimate(ub.mc.throughput_history, tp.value),
            is_complete                    |-> is_complete ]
    IN [mc |-> [ub.mc EXCEPT !.playback_position = position,
                             !.bitrate_switches = @ + switch,
                             !.previous_bitrate = bitrate,
                             !.segment_metrics = Append(@, metrics)],
        metrics |-> metrics]

quic_record_segment_metrics(mc, seg_index, bitrate, segment_size, download_time, timestamp, is_complete, t_mark, t_close) ==
    LET r == quic_record_in_memory(mc, seg_index, bitrate, segment_size, download_time,
                                   timestamp, is_complete, t_mark, t_close)
    IN [mc |-> quic_save_metrics_to_csv(r.mc, r.metrics), metrics |-> r.metrics]

\* max(buffers)
SeqMax(seq) == CHOOSE x \in {seq[k] : k \in 1..Len(seq)} :
                   \A k \in 1..Len(seq) : seq[k] <= x

IsPositive(x) == x[1] > 0

\* k * n = q * d + r with 0 <= r < d, as <<q, r>>, for 0 <= n <= d: by
\* doubling, so that no intermediate value leaves the integers' width
RECURSIVE Scaled(_, _, _)
Scaled(k, n, d) ==
    IF k = 0 THEN <<0, 0>>
    ELSE LET h == Scaled(k \div 2, n, d)
             r2 == 2 * h[2] + (IF k % 2 = 1 THEN n ELSE 0)
         IN <<2 * h[1] + r2 \div d, r2 % d>>

\* "sum(goodputs) / sum(throughputs) * 100" for the quotient of the sums: the
\* percentage, as its whole part and the fraction above it
percent(ratio) ==
    LET s == Scaled(100, ratio[1], ratio[2])
    IN [whole |-> s[1], part |-> Rat(s[2], ratio[2])]

\* generate_summary_report: whether it raised, and the lines it wrote to the
\* summary file (None when it wrote no file).  With no record it returns at once.
quic_generate_summary_report(mc) ==
    IF mc.segment_metrics = << >>
    THEN [raised |-> FALSE, summary |-> None]
    ELSE LET m == mc.segment_metrics
             throughputs == SelectSeq([k \in 1..Len(m) |-> m[k].throughput_bps],
                                      IsPositive)
             goodputs == SelectSeq([k \in 1..Len(m) |-> m[k].goodput_bps], IsPositive)
             ratio == RDiv(RSum(goodputs), RSum(throughputs))
         IN [raised |-> FALSE,
             summary |-> << [ total_segments |->
                                  Cardinality({k \in 1..Len(m) : m[k].segment_index > 0}),
                              rebuffering_events |-> mc.rebuffering_count,
                              rebuffering_duration |-> mc.total_rebuffering_duration,
                              average_throughput |->
                                  IF throughputs /= << >> THEN <<mean(throughputs)>>
                                  ELSE None,
                              max_buffer |->
                                  SeqMax([k \in 1..Len(m) |-> m[k].buffer_level_sec]),
                              bitrate_switches |-> mc.bitrate_switches,
                              \* in percent; None when the line is not written
                              goodput_efficiency |->
                                  IF goodputs /= << >> /\ throughputs /= << >>
                                  THEN <<percent(ratio)>>
                                  ELSE None ] >>]

(***************************************************************************)
(* dash_client.MetricsCalculator                                           *)
(***************************************************************************)
DashMetricsCalculator ==
    [ segment_duration           |-> SegmentDuration,
      download_times             |-> << >>,
      throughput_history         |-> << >>,
      buffer_level               |-> 0,
      rebuffering_count          |-> 0,
      rebuffering_start_time     |-> None,
      total_rebuffering_duration |-> 0,
      playback_position          |-> 0,
      bitrate_history            |-> << >>,
      segment_metrics            |-> << >>,
      metrics_file               |-> << >> ]   \* the rows after the header row

dash_calculate_rtt(mc, download_time) ==
    [mc |-> [mc EXCEPT !.download_times = Append(@, download_time)],
     value |-> RInt(download_time)]

dash_calculate_throughput(mc, data_size, download_time) ==
    IF download_time <= 0
    THEN [mc |-> mc, value |-> RInt(0)]
    ELSE LET throughput == Rate(data_size * 8, download_time)
         IN [mc |-> [mc EXCEPT !.throughput_history =
                         deque_append(@, throughput, ThroughputWindow)],
             value |-> throughput]

dash_get_smoothed_throughput(mc) == mean(mc.throughput_history)

\* "Normal playback - consume buffer" (the else branch)
\* the debit without its floor at 0
dash_debit_unclamped(buffer_level, download_time) == buffer_level - download_time

dash_debit(buffer_level, download_time) == Max(0, buffer_level - download_time)

\* "Update rebuffering duration": the fields after the check
dash_stall_end(mc, t_close) ==
    IF mc.rebuffering_start_time /= None /\ mc.buffer_level > 0
    THEN [mc EXCEPT !.total_rebuffering_duration =
                        @ + (t_close - mc.rebuffering_start_time[1]),
                    !.rebuffering_start_time = None]
    ELSE mc

dash_update_buffer(mc, download_time, segment_duration, t_mark, t_close) ==
    LET dry == mc.buffer_level <= 0
        starts == dry /\ mc.rebuffering_start_time = None
        debited == IF dry THEN mc.buffer_level
                   ELSE dash_debit(mc.buffer_level, download_time)
        marked == [mc EXCEPT
                     !.buffer_level = debited + segment_duration,
                     !.rebuffering_start_time = IF starts THEN <<t_mark>> ELSE @,
                     !.rebuffering_count = IF starts THEN @ + 1 ELSE @]
    IN [mc |-> dash_stall_end(marked, t_close), was_rebuffering |-> starts]

\* the row _save_metrics_to_csv writes for a metrics record
dash_csv_row(metrics) ==
    << metrics.timestamp, metrics.segment_index, metrics.representation_id,
       metrics.bitrate_bps, metrics.segment_size_bytes, metrics.download_time_sec,
       metrics.throughput_bps, metrics.smoothed_throughput_bps, metrics.rtt_sec,
       metrics.buffer_level_sec, metrics.rebuffering_count,
       metrics.total_rebuffering_duration_sec, metrics.playback_position_sec,
       metrics.is_rebuffering >>

\* dash_save_metrics_to_csv without the write
dash_save_metrics_to_csv_skipped(mc, metrics) == mc

\* _save_metrics_to_csv: open(self.metrics_file, 'a'), one writerow, close
dash_save_metrics_to_csv(mc, metrics) ==
    [mc EXCEPT !.metrics_file = Append(@, dash_csv_row(metrics))]

\* record_metrics up to and including self.segment_metrics.append(metrics)
dash_record_in_memory(mc, seg_index, rep_id, bitrate, segment_size, download_time, timestamp, t_mark, t_close) ==
    LET tp == dash_calculate_throughput(mc, segment_size, download_time)
        smoothed_throughput == dash_get_smoothed_throughput(tp.mc)
        rt == dash_calculate_rtt(tp.mc, download_time)
        ub == dash_update_buffer(rt.mc, download_time, rt.mc.segment_duration,
                                 t_mark, t_close)
        position == seg_index * mc.segment_duration
        metrics ==
          [ timestamp                      |-> timestamp,
            segment_index                  |-> seg_index,
            representation_id              |-> rep_id,
            bitrate_bps                    |-> bitrate,
            segment_size_bytes             |-> segment_size,
            download_time_sec              |-> download_time,
            throughput_bps                 |-> tp.value,
            smoothed_throughput_bps        |-> smoothed_throughput,
            rtt_sec                        |-> rt.value,
            buffer_level_sec               |-> ub.mc.buffer_level,
            rebuffering_count              |-> ub.mc.rebuffering_count,
            total_rebuffering_duration_sec |-> ub.mc.total_rebuffering_duration,
            playback_position_sec          |-> position,
            is_rebuffering                 |-> ub.was_rebuffering ]
    IN [mc |-> [ub.mc EXCEPT !.playback_position = position,
                             !.segment_metrics = Append(@, metrics)],
        metrics |-> metrics]

dash_record_metrics(mc, seg_index, rep_id, bitrate, segment_size, download_time, timestamp, t_mark, t_close) ==
    LET r == dash_record_in_memory(mc, seg_index, rep_id, bitrate, segment_size,
                                   download_time, timestamp, t_mark, t_close)
    IN [mc |-> dash_save_metrics_to_csv(r.mc, r.metrics), metrics |-> r.metrics]

\* generate_summary_report: whether it raised, and the lines it wrote to the
\* summary file.  With no record the fourth line divides by
\* len(self.segment_metrics) = 0: ZeroDivisionError after three lines.
dash_generate_summary_report(mc) ==
    LET m == mc.segment_metrics
        h == mc.bitrate_history
        head == [ total_segments |-> Len(m),
                  rebuffering_events |-> mc.rebuffering_count,
                  rebuffering_duration |-> mc.total_rebuffering_duration ]
    IN IF m = << >>
       THEN [raised |-> TRUE, summary |-> <<head>>]
       ELSE [raised |-> FALSE,
             summary |-> << [ total_segments |-> head.total_segments,
                              rebuffering_events |-> head.rebuffering_events,
                              rebuffering_duration |-> head.rebuffering_duration,
                              average_throughput |->
                                  mean([k \in 1..Len(m) |-> m[k].throughput_bps]),
                              average_rtt |-> mean([k \in 1..Len(m) |-> m[k].rtt_sec]),
                              max_buffer |->
                                  SeqMax([k \in 1..Len(m) |-> m[k].buffer_level_sec]),
                              bitrate_switches |->
                                  Cardinality({k \in 2..Len(h) : h[k] /= h[k - 1]}) ] >>]


(***************************************************************************)
(* The observer of a calculator's update_buffer calls.  It sees the        *)
(* arguments of each call, the clock, and the calculator's fields before   *)
(* and after it, and keeps its own account of the stalls:                  *)
(*   updates        calls seen so far                                      *)
(*   dry_intervals  maximal intervals with buffer_level <= 0 begun so far  *)
(*                  (one begins when the elapsed time of a call uses up a  *)
(*                  positive level, or at the first call on an empty one)  *)
(*   partials       partial observations applied in the current interval   *)
(*   stalls         the stalls marked so far, each with the clock read     *)
(*                  when it was marked and, once closed, when it closed    *)
(***************************************************************************)
ObserverInit == [updates |-> 0, dry_intervals |-> 0, partials |-> 0, stalls |-> << >>]

Observe(obs, before, after, download_time, is_complete, t_mark, t_close) ==
    LET began == \/ before.buffer_level > 0 /\ download_time >= before.buffer_level
                 \/ before.buffer_level <= 0 /\ obs.updates = 0
        marked == after.rebuffering_count > before.rebuffering_count
        stalls1 == IF marked
                   THEN Append(obs.stalls, [marked |-> t_mark, closed |-> None])
                   ELSE obs.stalls
        closes == /\ stalls1 /= << >>
                  /\ stalls1[Len(stalls1)].closed = None
                  /\ after.buffer_level > 0
    IN [ updates       |-> obs.updates + 1,
         dry_intervals |-> IF began THEN obs.dry_intervals + 1 ELSE obs.dry_intervals,
         partials      |-> IF after.buffer_level > 0 \/ began THEN 0
                           ELSE IF is_complete THEN obs.partials
                           ELSE obs.partials + 1,
         stalls        |-> IF closes
                           THEN [stalls1 EXCEPT ![Len(stalls1)].closed = <<t_close>>]
                           ELSE stalls1 ]

(***************************************************************************)
(* Construction.                                                           *)
(***************************************************************************)
bitrates == <<360, 720, 1080>>
\* the constructor's parameter segments_per_bitrate, left at its default of 4 by
\* run's create_protocol: the number of segments of the session's plan
segments_per_bitrate == 4

\* the manifest's Representation elements in document order: id, bandwidth and
\* the number of SegmentURLs of each
manifest ==
    << [id |-> "r1m",   bandwidth |-> 1000000, segments |-> 3],
       [id |-> "r4m",   bandwidth |-> 4000000, segments |-> 3],
       [id |-> "r500k", bandwidth |-> 500000,  segments |-> 3],
       [id |-> "r2m",   bandwidth |-> 2000000, segments |-> 2] >>

\* list.sort(key=lambda r: r["bandwidth"]): ascending and stable
InsertByBandwidth(r, sorted) ==
    LET k == Cardinality({j \in 1..Len(sorted) : sorted[j].bandwidth <= r.bandwidth})
    IN SubSeq(sorted, 1, k) \o <<r>> \o SubSeq(sorted, k + 1, Len(sorted))

RECURSIVE SortByBandwidth(_)
SortByBandwidth(reps) ==
    IF reps = << >> THEN << >>
    ELSE InsertByBandwidth(reps[Len(reps)],
                           SortByBandwidth(SubSeq(reps, 1, Len(reps) - 1)))

\* representations after "representations.sort(key=lambda r: r["bandwidth"])"
representations == SortByBandwidth(manifest)

BufferFields(mc) ==
    [ segment_duration           |-> mc.segment_duration,
      buffer_level               |-> mc.buffer_level,
      rebuffering_count          |-> mc.rebuffering_count,
      total_rebuffering_duration |-> mc.total_rebuffering_duration,
      rebuffering_start_time     |-> mc.rebuffering_start_time ]

\* "self.bitrates = bitrates or [360, 720, 1080]": None and the empty list are
\* both replaced by the default ladder
protocol_bitrates(bitrates_arg) ==
    IF bitrates_arg = None \/ bitrates_arg = <<<< >>>> THEN bitrates ELSE bitrates_arg[1]

\* min(self.bitrates)
SeqMin(seq) == CHOOSE x \in {seq[k] : k \in 1..Len(seq)} :
                   \A k \in 1..Len(seq) : x <= seq[k]

\* The state after the constructors have run, VideoStreamProtocol having been
\* given bitrates_arg as its bitrates argument (None when the argument is left
\* out, as VideoStreamClient.run does; <<l>> for a list l).
\* VideoStreamHandler before any request: no handle_stream_data task yet
ServerIdle == [transfers |-> << >>]

Construct(bitrates_arg) ==
    /\ now = 0
    /\ qmc = QuicMetricsCalculator
    /\ dmc = DashMetricsCalculator
    /\ qobs = ObserverInit
    /\ dobs = ObserverInit
    /\ pc = "connected"
    /\ self_bitrates = protocol_bitrates(bitrates_arg)
    /\ current_bitrate = SeqMin(protocol_bitrates(bitrates_arg))
    /\ segment_index = 0
    /\ current_stream_id = None
    /\ transfer_complete = FALSE
    /\ received_bytes = 0
    /\ video_data = 0
    /\ segment_start_time = 0
    /\ last_chunk_time = 0
    /\ next_stream_id = 0
    /\ requests = << >>
    /\ stream_chunks = 0
    /\ events_delivered = 0
    /\ stream_fin = FALSE
    /\ stray_event = FALSE
    /\ seg_snapshot = BufferFields(QuicMetricsCalculator)
    /\ d_pc = "init"
    /\ d_i = 0
    /\ current_rep = 1
    /\ d_start_time = 0
    /\ d_requests = << >>
    /\ probe = [op |-> "construct", bitrates |-> bitrates_arg]
    /\ run = [phase |-> "connecting", summaries |-> << >>]
    /\ results_dir = << >>
    /\ calculators = << >>
    /\ server = ServerIdle

Init == Construct(None)

(***************************************************************************)
(* The buffer driver: any sequence of update_buffer calls, each with any   *)
(* elapsed time in 0..MaxElapsed; the clock advances by 0..MaxLag between  *)
(* the two reads a call makes of it.  A complete observation is applied to *)
(* both calculators, a partial one to the multiplexed calculator, which    *)
(* alone takes partial observations.                                       *)
(***************************************************************************)
BufComplete(download_time, lag) ==
    /\ qobs.updates < MaxUpdates
    /\ LET t_mark == now
           t_close == now + lag
           q == quic_update_buffer(qmc, download_time, TRUE, t_mark, t_close).mc
           d == dash_update_buffer(dmc, download_time, dmc.segment_duration,
                                   t_mark, t_close).mc
       IN /\ qmc' = q
          /\ dmc' = d
          /\ qobs' = Observe(qobs, qmc, q, download_time, TRUE, t_mark, t_close)
          /\ dobs' = Observe(dobs, dmc, d, download_time, TRUE, t_mark, t_close)
          /\ now' = t_close
    /\ UNCHANGED <<quicVars, dashVars, setupVars>>

BufPartial(download_time, lag) ==
    /\ qobs.updates < MaxUpdates
    /\ LET t_mark == now
           t_close == now + lag
           q == quic_update_buffer(qmc, download_time, FALSE, t_mark, t_close).mc
       IN /\ qmc' = q
          /\ qobs' = Observe(qobs, qmc, q, download_time, FALSE, t_mark, t_close)
          /\ now' = t_close
    /\ UNCHANGED <<dmc, dobs, quicVars, dashVars, setupVars>>

NextBuf ==
    \/ \E download_time \in 0..MaxElapsed, lag \in 0..MaxLag :
           BufComplete(download_time, lag)
    \/ \E download_time \in 0..MaxElapsed, lag \in 0..MaxLag :
           BufPartial(download_time, lag)

SpecBuf == Init /\ [][NextBuf]_vars


(***************************************************************************)
(* The multiplexed session: VideoStreamClient.run driving one              *)
(* VideoStreamProtocol.  pc is where run / request_next_segment stands:    *)
(*   "connected"  in the while loop, about to call request_next_segment    *)
(*   "awaiting"   inside asyncio.wait_for(transfer_complete.wait(), 30.0)  *)
(*   "timing_out" the timer of wait_for has fired: the task resumes,       *)
(*                cancels the inner wait and gets TimeoutError some loop   *)
(*                iterations later                                         *)
(*   "sleeping"   request_next_segment returned True: asyncio.sleep(0.5)   *)
(*   "timed_out"  request_next_segment returned False after a timeout and  *)
(*                the exit of "async with" has closed the connection       *)
(*   "plan_done"  request_next_segment returned False, no index remains,   *)
(*                and the exit of "async with" has closed the connection   *)
(*   "cancelling" the task was cancelled inside wait_for or sleep: the     *)
(*                CancelledError reaches run some loop iterations later    *)
(*   "closing"    CancelledError has left the handshake or the while loop  *)
(*                and the exit of "async with" has closed the connection   *)
(*   "closed"     the exit of "async with" is over                         *)
(* Stream data events are delivered by the event loop whenever run is      *)
(* suspended and has not closed the connection: run gives the loop no turn *)
(* between the return of request_next_segment and the close.               *)
(***************************************************************************)
MaxChunks == 1       \* StreamDataReceived events delivered on one request's stream
MaxEvents == 4       \* StreamDataReceived events delivered on the requests' streams in a session

ChunkSizes == {5000, 100000}     \* len(event.data)
ChunkDelays == {0, 1}            \* seconds from one delivery to the next
ServerStream == 3                \* a stream the server opened
SleepTime == 1                   \* asyncio.sleep(0.5), in whole seconds

IndexOf(seq, x) == CHOOSE k \in 1..Len(seq) : seq[k] = x

video_name(bitrate, index) ==
    IF bitrate = 360 THEN <<"sample_low_seg", index>>
    ELSE IF bitrate = 720 THEN <<"sample_medium_seg", index>>
    ELSE <<"sample_high_seg", index>>

\* (received_bytes * 8) / last_chunk_time / 1000, or 0
throughput_kbps(bytes, chunk_time) ==
    IF chunk_time > 0 THEN Rate(bytes * 8, chunk_time) ELSE RInt(0)

\* abr_decision stepping up by doubling the bitrate, not by the next rung
abr_decision_doubling(bitrate, throughput) ==
    LET idx == IndexOf(self_bitrates, bitrate)
    IN IF RLess(Rat(bitrate * 3, 2), throughput) /\ idx < Len(self_bitrates)
       THEN bitrate * 2
       ELSE IF RLess(throughput, Rat(bitrate * 4, 5)) /\ idx > 1
       THEN self_bitrates[idx - 1]
       ELSE bitrate

\* abr_decision with >= and <= for the two comparisons
abr_decision_inclusive(bitrate, throughput) ==
    LET idx == IndexOf(self_bitrates, bitrate)
    IN IF ~RLess(throughput, Rat(bitrate * 3, 2)) /\ idx < Len(self_bitrates)
       THEN self_bitrates[idx + 1]
       ELSE IF ~RLess(Rat(bitrate * 4, 5), throughput) /\ idx > 1
       THEN self_bitrates[idx - 1]
       ELSE bitrate

\* abr_decision stepping up to the highest rung the throughput allows
abr_decision_jump(bitrate, throughput) ==
    LET idx == IndexOf(self_bitrates, bitrate)
        reach == {k \in idx + 1..Len(self_bitrates) :
                     RLess(Rat(self_bitrates[k - 1] * 3, 2), throughput)}
    IN IF RLess(Rat(bitrate * 3, 2), throughput) /\ idx < Len(self_bitrates)
       THEN self_bitrates[CHOOSE k \in reach : \A j \in reach : j <= k]
       ELSE IF RLess(throughput, Rat(bitrate * 4, 5)) /\ idx > 1
       THEN self_bitrates[idx - 1]
       ELSE bitrate

\* "ORIGINAL ABR DECISION LOGIC": the bitrate after the decision
abr_decision(bitrate, throughput) ==
    LET idx == IndexOf(self_bitrates, bitrate)
    IN IF RLess(Rat(bitrate * 3, 2), throughput) /\ idx < Len(self_bitrates)
       THEN self_bitrates[idx + 1]
       ELSE IF RLess(throughput, Rat(bitrate * 4, 5)) /\ idx > 1
       THEN self_bitrates[idx - 1]
       ELSE bitrate

\* run suspended with the loop over but the connection not yet closed, as if
\* it awaited something between the while loop and the exit of "async with"
ConnectionOpen_until_exit_returns ==
    pc \in {"connected", "awaiting", "timing_out", "sleeping", "timed_out", "plan_done",
            "cancelling"}

\* run is suspended inside "async with connect(...)" and the exit has not
\* closed the connection
ConnectionOpen ==
    pc \in {"connected", "awaiting", "timing_out", "sleeping", "cancelling"}

\* is_current_stream without the comparison
is_current_stream_any(stream_id, current) == TRUE

\* "if event.stream_id == self.current_stream_id"
is_current_stream(stream_id, current) == <<stream_id>> = current

\* request_next_segment up to the await: a segment index remains
RequestSegment ==
    /\ pc = "connected"
    /\ segment_index < segments_per_bitrate
    /\ current_stream_id' = <<next_stream_id>>
    /\ next_stream_id' = next_stream_id + 4
    /\ video_data' = 0
    /\ received_bytes' = 0
    /\ transfer_complete' = FALSE
    /\ segment_start_time' = now
    /\ requests' = Append(requests,
                          [stream_id |-> next_stream_id,
                           video_name |-> video_name(current_bitrate, segment_index)])
    /\ stream_chunks' = 0
    /\ stream_fin' = FALSE
    /\ stray_event' = FALSE
    /\ seg_snapshot' = BufferFields(qmc)
    /\ pc' = "awaiting"
    /\ UNCHANGED <<now, calcVars, current_bitrate, segment_index, last_chunk_time,
                   events_delivered, dashVars, setupVars>>

\* request_next_segment: "All segments completed!"
PlanExhausted ==
    /\ pc = "connected"
    /\ segment_index >= segments_per_bitrate
    /\ pc' = "plan_done"
    /\ stray_event' = FALSE
    /\ UNCHANGED <<now, calcVars, current_bitrate, segment_index, current_stream_id,
                   transfer_complete, received_bytes, video_data, segment_start_time,
                   last_chunk_time, next_stream_id, requests, stream_chunks, events_delivered,
                   stream_fin, seg_snapshot, dashVars, setupVars>>

\* quic_event_received(StreamDataReceived): the event loop delivers size bytes of
\* stream stream_id; on the current stream, delay seconds after the last step.
\* The connection delivers nothing on a stream after its end_stream.
\* stray_event notes whether the event named another stream than the current one.
StreamData(stream_id, size, end_stream, delay) ==
    /\ ConnectionOpen
    /\ IF <<stream_id>> = current_stream_id
       THEN /\ ~stream_fin
            /\ stream_chunks < MaxChunks
            /\ events_delivered < MaxEvents
            /\ now' = now + delay
            /\ stream_chunks' = stream_chunks + 1
            /\ events_delivered' = events_delivered + 1
            /\ stream_fin' = end_stream
            /\ stray_event' = FALSE
       ELSE /\ delay = 0
            /\ stray_event' = TRUE
            /\ UNCHANGED <<now, stream_chunks, events_delivered, stream_fin>>
    /\ IF is_current_stream(stream_id, current_stream_id)
       THEN /\ LET t == now + delay
                   download_time == t - segment_start_time
                   r == quic_record_segment_metrics(qmc, segment_index,
                            current_bitrate * 1000, size, download_time, t,
                            FALSE, t, t)
               IN /\ qmc' = r.mc
                  /\ qobs' = Observe(qobs, qmc, r.mc, download_time, FALSE, t, t)
            /\ video_data' = video_data + size
            /\ received_bytes' = received_bytes + size
            /\ transfer_complete' = (transfer_complete \/ end_stream)
       ELSE UNCHANGED <<qmc, qobs, video_data, received_bytes, transfer_complete>>
    /\ UNCHANGED <<dmc, dobs, pc, current_bitrate, segment_index, current_stream_id,
                   segment_start_time, last_chunk_time, next_stream_id, requests,
                   seg_snapshot, dashVars, setupVars>>

\* SegmentCompleted incrementing the index before it records
SegmentCompleted_index_first ==
    /\ pc = "awaiting"
    /\ transfer_complete
    /\ LET chunk_time == now - segment_start_time
           r == quic_record_segment_metrics(qmc, segment_index + 1,
                    current_bitrate * 1000, received_bytes, chunk_time, now, TRUE,
                    now, now)
       IN /\ last_chunk_time' = chunk_time
          /\ qmc' = r.mc
          /\ qobs' = Observe(qobs, qmc, r.mc, chunk_time, TRUE, now, now)
          /\ current_bitrate' = abr_decision(current_bitrate,
                                    throughput_kbps(received_bytes, chunk_time))
    /\ segment_index' = segment_index + 1
    /\ pc' = "sleeping"
    /\ stray_event' = FALSE
    /\ UNCHANGED <<now, dmc, dobs, current_stream_id, transfer_complete,
                   received_bytes, video_data, segment_start_time, next_stream_id,
                   requests, stream_chunks, events_delivered, stream_fin, seg_snapshot, dashVars, setupVars>>

\* SegmentCompleted taking the decision's throughput from the calculator's
\* calculate_throughput, which pushes a sample
SegmentCompleted_decision_via_calculator ==
    /\ pc = "awaiting"
    /\ transfer_complete
    /\ LET chunk_time == now - segment_start_time
           r == quic_record_segment_metrics(qmc, segment_index, current_bitrate * 1000,
                    received_bytes, chunk_time, now, TRUE, now, now)
           tp == quic_calculate_throughput(r.mc, received_bytes, chunk_time)
       IN /\ last_chunk_time' = chunk_time
          /\ qmc' = tp.mc
          /\ qobs' = Observe(qobs, qmc, r.mc, chunk_time, TRUE, now, now)
          /\ current_bitrate' = abr_decision(current_bitrate, tp.value)
    /\ segment_index' = segment_index + 1
    /\ pc' = "sleeping"
    /\ stray_event' = FALSE
    /\ UNCHANGED <<now, dmc, dobs, current_stream_id, transfer_complete,
                   received_bytes, video_data, segment_start_time, next_stream_id,
                   requests, stream_chunks, events_delivered, stream_fin, seg_snapshot, dashVars, setupVars>>

\* request_next_segment after the await returned: the completed record, the ABR
\* decision and the next index
SegmentCompleted ==
    /\ pc = "awaiting"
    /\ transfer_complete
    /\ LET chunk_time == now - segment_start_time
           r == quic_record_segment_metrics(qmc, segment_index, current_bitrate * 1000,
                    received_bytes, chunk_time, now, TRUE, now, now)
       IN /\ last_chunk_time' = chunk_time
          /\ qmc' = r.mc
          /\ qobs' = Observe(qobs, qmc, r.mc, chunk_time, TRUE, now, now)
          /\ current_bitrate' = abr_decision(current_bitrate,
                                    throughput_kbps(received_bytes, chunk_time))
    /\ segment_index' = segment_index + 1
    /\ pc' = "sleeping"
    /\ stray_event' = FALSE
    /\ UNCHANGED <<now, dmc, dobs, current_stream_id, transfer_complete,
                   received_bytes, video_data, segment_start_time, next_stream_id,
                   requests, stream_chunks, events_delivered, stream_fin, seg_snapshot, dashVars, setupVars>>

\* asyncio.wait_for(self.transfer_complete.wait(), timeout=30.0): the timer fires
\* with the event not set; the waiting task is released and resumes later
WaitTimerFires ==
    /\ pc = "awaiting"
    /\ ~transfer_complete
    /\ now' = Max(now, segment_start_time + WaitTimeout)
    /\ pc' = "timing_out"
    /\ stray_event' = FALSE
    /\ UNCHANGED <<calcVars, current_bitrate, segment_index, current_stream_id,
                   transfer_complete, received_bytes, video_data, segment_start_time,
                   last_chunk_time, next_stream_id, requests, stream_chunks,
                   events_delivered, stream_fin, seg_snapshot, dashVars, setupVars>>

\* SegmentTimeout recording the segment as the completed branch does
SegmentTimeout_as_complete ==
    /\ pc = "timing_out"
    /\ LET t == Max(now, segment_start_time + WaitTimeout)
           r == quic_record_segment_metrics(qmc, segment_index, current_bitrate * 1000,
                    received_bytes, WaitTimeout, t, TRUE, t, t)
       IN /\ now' = t
          /\ qmc' = r.mc
          /\ qobs' = Observe(qobs, qmc, r.mc, WaitTimeout, TRUE, t, t)
    /\ pc' = "timed_out"
    /\ stray_event' = FALSE
    /\ UNCHANGED <<dmc, dobs, current_bitrate, segment_index, current_stream_id,
                   transfer_complete, received_bytes, video_data, segment_start_time,
                   last_chunk_time, next_stream_id, requests, stream_chunks, events_delivered,
                   stream_fin, seg_snapshot, dashVars, setupVars>>

\* SegmentTimeout advancing to the next index, as the completed branch does
SegmentTimeout_advancing ==
    /\ pc = "timing_out"
    /\ LET t == Max(now, segment_start_time + WaitTimeout)
           r == quic_record_segment_metrics(qmc, segment_index, current_bitrate * 1000,
                    received_bytes, WaitTimeout, t, FALSE, t, t)
       IN /\ now' = t
          /\ qmc' = r.mc
          /\ qobs' = Observe(qobs, qmc, r.mc, WaitTimeout, FALSE, t, t)
    /\ segment_index' = segment_index + 1
    /\ pc' = "sleeping"
    /\ stray_event' = FALSE
    /\ UNCHANGED <<dmc, dobs, current_bitrate, current_stream_id,
                   transfer_complete, received_bytes, video_data, segment_start_time,
                   last_chunk_time, next_stream_id, requests, stream_chunks, events_delivered,
                   stream_fin, seg_snapshot, dashVars, setupVars>>

\* SegmentTimeout returning True: the loop goes on and asks for the index again
SegmentTimeout_retry ==
    /\ pc = "timing_out"
    /\ LET t == Max(now, segment_start_time + WaitTimeout)
           r == quic_record_segment_metrics(qmc, segment_index, current_bitrate * 1000,
                    received_bytes, WaitTimeout, t, FALSE, t, t)
       IN /\ now' = t
          /\ qmc' = r.mc
          /\ qobs' = Observe(qobs, qmc, r.mc, WaitTimeout, FALSE, t, t)
    /\ pc' = "sleeping"
    /\ stray_event' = FALSE
    /\ UNCHANGED <<dmc, dobs, current_bitrate, segment_index, current_stream_id,
                   transfer_complete, received_bytes, video_data, segment_start_time,
                   last_chunk_time, next_stream_id, requests, stream_chunks, events_delivered,
                   stream_fin, seg_snapshot, dashVars, setupVars>>

\* request_next_segment: "except asyncio.TimeoutError", whether or not the last
\* chunk has arrived since the timer fired
SegmentTimeout ==
    /\ pc = "timing_out"
    /\ LET t == Max(now, segment_start_time + WaitTimeout)
           r == quic_record_segment_metrics(qmc, segment_index, current_bitrate * 1000,
                    received_bytes, WaitTimeout, t, FALSE, t, t)
       IN /\ now' = t
          /\ qmc' = r.mc
          /\ qobs' = Observe(qobs, qmc, r.mc, WaitTimeout, FALSE, t, t)
    /\ pc' = "timed_out"
    /\ stray_event' = FALSE
    /\ UNCHANGED <<dmc, dobs, current_bitrate, segment_index, current_stream_id,
                   transfer_complete, received_bytes, video_data, segment_start_time,
                   last_chunk_time, next_stream_id, requests, stream_chunks, events_delivered,
                   stream_fin, seg_snapshot, dashVars, setupVars>>

\* run: "await asyncio.sleep(0.5)" and back to the loop test
Sleep ==
    /\ pc = "sleeping"
    /\ now' = now + SleepTime
    /\ pc' = "connected"
    /\ stray_event' = FALSE
    /\ UNCHANGED <<calcVars, current_bitrate, segment_index, current_stream_id,
                   transfer_complete, received_bytes, video_data, segment_start_time,
                   last_chunk_time, next_stream_id, requests, stream_chunks, events_delivered,
                   stream_fin, seg_snapshot, dashVars, setupVars>>

\* run: the while loop is over, the exit of "async with connect(...)", which
\* closed the connection when request_next_segment returned False, returns
CloseConnection ==
    /\ pc \in {"timed_out", "plan_done"}
    /\ pc' = "closed"
    /\ stray_event' = FALSE
    /\ UNCHANGED <<now, calcVars, current_bitrate, segment_index, current_stream_id,
                   transfer_complete, received_bytes, video_data, segment_start_time,
                   last_chunk_time, next_stream_id, requests, stream_chunks, events_delivered,
                   stream_fin, seg_snapshot, dashVars, setupVars>>

\* the streams an event can name: the requests' streams and one of the server's
StreamIds == {requests[k].stream_id : k \in 1..Len(requests)} \cup {ServerStream}

NextQuic ==
    \/ RequestSegment
    \/ PlanExhausted
    \/ \E size \in ChunkSizes, end_stream \in BOOLEAN, delay \in ChunkDelays :
           /\ current_stream_id /= None
           /\ StreamData(current_stream_id[1], size, end_stream, delay)
    \/ \E stream_id \in StreamIds :
           /\ <<stream_id>> /= current_stream_id
           /\ StreamData(stream_id, SmallSegmentBytes, TRUE, 0)
    \/ SegmentCompleted
    \/ WaitTimerFires
    \/ SegmentTimeout
    \/ Sleep
    \/ CloseConnection

SpecQuic == Init /\ [][NextQuic]_vars

(***************************************************************************)
(* The chunked-HTTP session: the script of dash_client.py.  d_pc is where  *)
(* the script stands:                                                      *)
(*   "init"       about to download the initialization segment             *)
(*   "init_wait"  inside requests.get(init_url)                            *)
(*   "loop"       at the head of "for i in range(num_segments)"            *)
(*   "seg_wait"   inside requests.get(seg_url)                             *)
(*   "report"     the loop is over                                         *)
(*   "done"       generate_summary_report has run                          *)
(* requests.get is called without a timeout: it returns when the response  *)
(* has arrived, and the script has no other way out of it.                 *)
(***************************************************************************)
DashSizes == {50000, 400000, 1000000}    \* len(data)
DashDownloadTimes == {0, 1, 3}           \* time.time() - start_time

RECURSIVE MaxSegmentsOf(_)
MaxSegmentsOf(reps) ==
    IF reps = << >> THEN 0 ELSE Max(reps[1].segments, MaxSegmentsOf(Tail(reps)))

num_segments == MaxSegmentsOf(representations)

\* threshold_decision with <= for the comparison
threshold_decision_inclusive(smoothed_throughput) ==
    LET suitable_reps == {k \in 1..Len(representations) :
                             ~RLess(Rat(smoothed_throughput[1] * 4,
                                        smoothed_throughput[2] * 5),
                                    Kbps(representations[k].bandwidth))}
    IN IF suitable_reps /= {}
       THEN CHOOSE k \in suitable_reps : \A j \in suitable_reps : j <= k
       ELSE 1

\* "Adaptive bitrate logic": the index of new_rep
threshold_decision(smoothed_throughput) ==
    LET suitable_reps == {k \in 1..Len(representations) :
                             RLess(Kbps(representations[k].bandwidth),
                                   Rat(smoothed_throughput[1] * 4,
                                       smoothed_throughput[2] * 5))}
    IN IF suitable_reps /= {}
       THEN CHOOSE k \in suitable_reps : \A j \in suitable_reps : j <= k
       ELSE 1

DashRequestInit ==
    /\ d_pc = "init"
    /\ d_start_time' = now
    /\ d_pc' = "init_wait"
    /\ UNCHANGED <<now, calcVars, quicVars, setupVars, d_i, current_rep, d_requests>>

DashInitResponse(size, download_time) ==
    /\ d_pc = "init_wait"
    /\ LET t == d_start_time + download_time
           r == dash_record_metrics(dmc, 0, "init",
                    representations[current_rep].bandwidth, size, download_time,
                    t, t, t)
       IN /\ now' = t
          /\ dmc' = r.mc
          /\ dobs' = Observe(dobs, dmc, r.mc, download_time, TRUE, t, t)
    /\ d_pc' = "loop"
    /\ UNCHANGED <<qmc, qobs, quicVars, setupVars, d_i, current_rep, d_start_time, d_requests>>

\* "if i >= len(current_rep["segments"]): continue"
DashSkipSegment ==
    /\ d_pc = "loop"
    /\ d_i < num_segments
    /\ d_i >= representations[current_rep].segments
    /\ d_i' = d_i + 1
    /\ UNCHANGED <<now, calcVars, quicVars, setupVars, d_pc, current_rep, d_start_time, d_requests>>

DashRequestSegment ==
    /\ d_pc = "loop"
    /\ d_i < num_segments
    /\ d_i < representations[current_rep].segments
    /\ d_start_time' = now
    /\ d_pc' = "seg_wait"
    /\ d_requests' = Append(d_requests,
                            [index |-> d_i, rep_id |-> representations[current_rep].id])
    /\ UNCHANGED <<now, calcVars, quicVars, setupVars, d_i, current_rep>>

DashSegmentResponse(size, download_time) ==
    /\ d_pc = "seg_wait"
    /\ LET t == d_start_time + download_time
           r == dash_record_metrics(dmc, d_i + 1, representations[current_rep].id,
                    representations[current_rep].bandwidth, size, download_time,
                    t, t, t)
           new_rep == threshold_decision(r.metrics.smoothed_throughput_bps)
       IN /\ now' = t
          /\ dobs' = Observe(dobs, dmc, r.mc, download_time, TRUE, t, t)
          /\ IF representations[new_rep].id /= representations[current_rep].id
             THEN /\ current_rep' = new_rep
                  /\ dmc' = [r.mc EXCEPT !.bitrate_history =
                                Append(@, representations[new_rep].bandwidth)]
             ELSE /\ current_rep' = current_rep
                  /\ dmc' = r.mc
    /\ d_i' = d_i + 1
    /\ d_pc' = "loop"
    /\ UNCHANGED <<qmc, qobs, quicVars, setupVars, d_start_time, d_requests>>

DashLoopEnds ==
    /\ d_pc = "loop"
    /\ d_i >= num_segments
    /\ d_pc' = "report"
    /\ UNCHANGED <<now, calcVars, quicVars, setupVars, d_i, current_rep, d_start_time, d_requests>>

\* metrics_calc.generate_summary_report() and the final statistics
DashReport ==
    /\ d_pc = "report"
    /\ d_pc' = "done"
    /\ UNCHANGED <<now, calcVars, quicVars, setupVars, d_i, current_rep, d_start_time, d_requests>>

NextDash ==
    \/ DashRequestInit
    \/ \E size \in DashSizes, download_time \in DashDownloadTimes :
           DashInitResponse(size, download_time)
    \/ DashSkipSegment
    \/ DashRequestSegment
    \/ \E size \in DashSizes, download_time \in DashDownloadTimes :
           DashSegmentResponse(size, download_time)
    \/ DashLoopEnds
    \/ DashReport

SpecDash == Init /\ [][NextDash]_vars

\* The script's own steps are taken when they can be; whether and when a
\* response arrives is up to the server and the network.
SpecDashFair ==
    /\ Init
    /\ [][NextDash]_vars
    /\ WF_vars(DashRequestInit)
    /\ WF_vars(DashSkipSegment)
    /\ WF_vars(DashRequestSegment)
    /\ WF_vars(DashLoopEnds)
    /\ WF_vars(DashReport)

(***************************************************************************)
(* The ABR driver: a protocol constructed with one of the ladders takes    *)
(* any sequence of hysteresis decisions, each on any of the throughputs.   *)
(***************************************************************************)
MaxDecisions == 3    \* decisions in one run of the ABR driver

Ladders == { <<360, 720, 1080>>, <<1, 2, 4, 8>> }
AbrThroughputs ==
    {RInt(x) : x \in {0, 1, 2, 3, 4, 6, 7, 12, 13, 50, 287, 288, 289, 540, 541,
                      576, 863, 864, 865, 1080, 1081, 1620, 1621, 5000}}
    \cup {Rat(3, 2), Rat(4, 5), Rat(8, 5), Rat(16, 5), Rat(32, 5), Rat(1081, 2)}

InitAbr == \E ladder \in Ladders : Construct(<<ladder>>)

AbrDecide(throughput) ==
    /\ probe.op = "construct" \/ (probe.op = "abr" /\ probe.steps < MaxDecisions)
    /\ current_bitrate' = abr_decision(current_bitrate, throughput)
    /\ probe' = [op |-> "abr", before |-> current_bitrate, throughput |-> throughput,
                 steps |-> IF probe.op = "abr" THEN probe.steps + 1 ELSE 1]
    /\ UNCHANGED <<now, calcVars, pc, segment_index, current_stream_id,
                   transfer_complete, received_bytes, video_data, segment_start_time,
                   last_chunk_time, next_stream_id, requests, stream_chunks, events_delivered,
                   stream_fin, stray_event, seg_snapshot, dashVars, self_bitrates, sessionVars, serverVars>>

NextAbr == \E throughput \in AbrThroughputs : AbrDecide(throughput)

SpecAbr == InitAbr /\ [][NextAbr]_vars

(***************************************************************************)
(* The threshold driver: the script's "Adaptive bitrate logic" applied to  *)
(* any sequence of smoothed throughputs (held in kbit/s).                  *)
(***************************************************************************)
SmoothedThroughputs ==
    {RInt(x) : x \in {0, 100, 500, 624, 625, 626, 1249, 1250, 1251, 1500, 2499, 2500,
                      2501, 4999, 5000, 5001, 10000}}
    \cup {Rat(1249, 2), Rat(1251, 2), Rat(2501, 2), Rat(4999, 2), Rat(10001, 2)}

ThresholdDecide(smoothed_throughput) ==
    /\ probe.op = "construct" \/ (probe.op = "threshold" /\ probe.steps < MaxDecisions)
    /\ LET new_rep == threshold_decision(smoothed_throughput)
       IN IF representations[new_rep].id /= representations[current_rep].id
          THEN /\ current_rep' = new_rep
               /\ dmc' = [dmc EXCEPT !.bitrate_history =
                             Append(@, representations[new_rep].bandwidth)]
          ELSE UNCHANGED <<current_rep, dmc>>
    /\ probe' = [op |-> "threshold", before |-> current_rep,
                 smoothed |-> smoothed_throughput,
                 steps |-> IF probe.op = "threshold" THEN probe.steps + 1 ELSE 1]
    /\ UNCHANGED <<now, qmc, qobs, dobs, quicVars, d_pc, d_i, d_start_time,
                   d_requests, self_bitrates, sessionVars, serverVars>>

NextThreshold == \E smoothed_throughput \in SmoothedThroughputs :
                     ThresholdDecide(smoothed_throughput)

SpecThreshold == Init /\ [][NextThreshold]_vars

(***************************************************************************)
(* The window driver: any sequence of samples is pushed onto the windows   *)
(* of both calculators through calculate_throughput and estimate_rtt.  A   *)
(* sample v is a transfer of 125 * v bytes in one second (v kbit/s) for    *)
(* the throughput windows and a small transfer of v seconds for the RTT    *)
(* window.  The n-th push takes 10 or 10 * n.                              *)
(***************************************************************************)
MaxPushes == 11      \* pushes in one run of the window driver

PushValues(n) == {10, 10 * n}

WindowPush(v) ==
    /\ probe.op = "construct" \/ (probe.op = "window" /\ Len(probe.pushed) < MaxPushes)
    /\ qmc' = quic_estimate_rtt(quic_calculate_throughput(qmc, 125 * v, 1).mc, v, 0).mc
    /\ dmc' = dash_calculate_throughput(dmc, 125 * v, 1).mc
    /\ probe' = [op |-> "window",
                 pushed |-> IF probe.op = "window" THEN Append(probe.pushed, v) ELSE <<v>>]
    /\ UNCHANGED <<now, qobs, dobs, quicVars, dashVars, self_bitrates, sessionVars, serverVars>>

NextWindow ==
    \E v \in PushValues(IF probe.op = "window" THEN Len(probe.pushed) + 1 ELSE 1) :
        WindowPush(v)

SpecWindow == Init /\ [][NextWindow]_vars

(***************************************************************************)
(* The record driver: a scripted sequence of observations is reported to   *)
(* the record operations of the two calculators, one second apart, and the *)
(* summary is asked for at any point, which ends the run.  A call returns, *)
(* or the process dies inside it: before the record is appended to         *)
(* segment_metrics, or after that and before the row is written.  probe    *)
(* keeps the observations reported to each calculator, in order.           *)
(***************************************************************************)
MaxRecords == 3      \* record calls in one run of the record driver

RecordElapsed == {-1, 0, 2}      \* download_time
RecordBytes == 50000             \* segment_size
RecordOutcomes == {"returned", "died_before_append", "died_before_save"}

RecProbe ==
    IF probe.op = "record" THEN probe
    ELSE [op |-> "record", reported_q |-> << >>, reported_d |-> << >>,
          died |-> FALSE, summary |-> None]

CanRecord ==
    /\ probe.op \in {"construct", "record"}
    /\ ~RecProbe.died
    /\ RecProbe.summary = None

Observation(seg_index, download_time, timestamp) ==
    [segment_index |-> seg_index, segment_size |-> RecordBytes,
     download_time |-> download_time, timestamp |-> timestamp]

QuicRecord(download_time, is_complete, outcome) ==
    /\ CanRecord
    /\ Len(RecProbe.reported_q) + Len(RecProbe.reported_d) < MaxRecords
    /\ LET t == now + 1
           seg_index == Len(RecProbe.reported_q)
           r == quic_record_in_memory(qmc, seg_index, bitrates[1] * 1000, RecordBytes,
                                      download_time, t, is_complete, t, t)
           after == IF outcome = "returned"
                    THEN quic_record_segment_metrics(qmc, seg_index, bitrates[1] * 1000,
                             RecordBytes, download_time, t, is_complete, t, t).mc
                    ELSE IF outcome = "died_before_save" THEN r.mc
                    ELSE [r.mc EXCEPT !.segment_metrics = qmc.segment_metrics]
       IN /\ now' = t
          /\ qmc' = after
          /\ qobs' = Observe(qobs, qmc, after, download_time, is_complete, t, t)
          /\ probe' = [RecProbe EXCEPT
                           !.reported_q = Append(@, Observation(seg_index, download_time, t)),
                           !.died = (outcome /= "returned")]
    /\ UNCHANGED <<dmc, dobs, quicVars, dashVars, self_bitrates, sessionVars, serverVars>>

DashRecord(download_time, outcome) ==
    /\ CanRecord
    /\ Len(RecProbe.reported_q) + Len(RecProbe.reported_d) < MaxRecords
    /\ LET t == now + 1
           seg_index == Len(RecProbe.reported_d)
           r == dash_record_in_memory(dmc, seg_index, representations[1].id,
                    representations[1].bandwidth, RecordBytes, download_time, t, t, t)
           after == IF outcome = "returned"
                    THEN dash_record_metrics(dmc, seg_index, representations[1].id,
                             representations[1].bandwidth, RecordBytes, download_time,
                             t, t, t).mc
                    ELSE IF outcome = "died_before_save" THEN r.mc
                    ELSE [r.mc EXCEPT !.segment_metrics = dmc.segment_metrics]
       IN /\ now' = t
          /\ dmc' = after
          /\ dobs' = Observe(dobs, dmc, after, download_time, TRUE, t, t)
          /\ probe' = [RecProbe EXCEPT
                           !.reported_d = Append(@, Observation(seg_index, download_time, t)),
                           !.died = (outcome /= "returned")]
    /\ UNCHANGED <<qmc, qobs, quicVars, dashVars, self_bitrates, sessionVars, serverVars>>

Summarize ==
    /\ CanRecord
    /\ probe' = [RecProbe EXCEPT
                     !.summary = << [quic |-> quic_generate_summary_report(qmc),
                                     dash |-> dash_generate_summary_report(dmc)] >>]
    /\ UNCHANGED <<now, calcVars, quicVars, dashVars, self_bitrates, sessionVars, serverVars>>

NextRecord ==
    \/ \E download_time \in RecordElapsed, is_complete \in BOOLEAN,
          outcome \in RecordOutcomes : QuicRecord(download_time, is_complete, outcome)
    \/ \E download_time \in RecordElapsed, outcome \in RecordOutcomes :
           DashRecord(download_time, outcome)
    \/ Summarize

SpecRecord == Init /\ [][NextRecord]_vars

(***************************************************************************)
(* The QUIC client constructed with a ladder argument: none, an empty      *)
(* list, or a list of rungs, and then run.                                 *)
(***************************************************************************)

LadderArgs == {None, << << >> >>, << <<360, 720, 1080>> >>}

InitLadder == \E bitrates_arg \in LadderArgs : Construct(bitrates_arg)

SpecLadder == InitLadder /\ [][NextQuic]_vars

(***************************************************************************)
(* VideoStreamClient.run around the multiplexed session, with the server   *)
(* of quic_server.py answering a request for a file it does not have.      *)
(* run.phase is where run stands outside the while loop:                   *)
(*   "connecting"  inside connect(...): the protocol is constructed, the   *)
(*                 handshake is not over                                   *)
(*   "streaming"   inside "async with connect(...) as protocol"            *)
(*   "failed"      connect raised, "except Exception" caught it            *)
(*   "cancelled"   the task was cancelled: CancelledError, which "except   *)
(*                 Exception" does not catch, has left run                 *)
(*   "reported"    save_qlog and generate_summary_report have returned     *)
(* run.summaries lists the summary files written, each with the length of  *)
(* the metric log when it was written.                                     *)
(***************************************************************************)

\* connect(...): wait_connected returned, the body of "async with" runs
Connected ==
    /\ run.phase = "connecting"
    /\ pc = "connected"
    /\ run' = [run EXCEPT !.phase = "streaming"]
    /\ UNCHANGED <<now, calcVars, quicVars, dashVars, self_bitrates, probe,
                   results_dir, calculators, serverVars>>

\* connect(...) raised (the handshake failed): "except Exception" at once
ConnectFails ==
    /\ run.phase = "connecting"
    /\ pc = "connected"
    /\ run' = [run EXCEPT !.phase = "failed"]
    /\ pc' = "closed"
    /\ UNCHANGED <<now, calcVars, current_bitrate, segment_index, current_stream_id,
                   transfer_complete, received_bytes, video_data, segment_start_time,
                   last_chunk_time, next_stream_id, requests, stream_chunks, events_delivered,
                   stream_fin, stray_event, seg_snapshot, dashVars, self_bitrates,
                   probe, results_dir, calculators, serverVars>>

\* len(f"sample_low_seg{index}.mp4") and the two others, for an index below 10
video_name_length(bitrate, index) ==
    IF bitrate = 360 THEN 19 ELSE IF bitrate = 720 THEN 22 ELSE 20

\* len(f"ERROR: File not found: {filename}")
error_msg_length(bitrate, index) == 23 + video_name_length(bitrate, index)

\* quic_server.py, handle_stream_data: the file asked for on the current stream
\* does not exist; the server answers with the error message and end_stream,
\* which the client receives delay seconds after the last step
FileNotFound(delay) ==
    /\ run.phase = "streaming"
    /\ current_stream_id /= None
    /\ stream_chunks = 0
    /\ StreamData(current_stream_id[1], error_msg_length(current_bitrate, segment_index),
                  TRUE, delay)

\* the task running run is cancelled during the handshake: CancelledError
\* reaches the exit of connect(...), which closes the connection and waits for
\* the close
ConnectCancelled ==
    /\ run.phase = "connecting"
    /\ pc = "connected"
    /\ run' = run
    /\ pc' = "closing"
    /\ stray_event' = FALSE
    /\ UNCHANGED <<now, calcVars, current_bitrate, segment_index, current_stream_id,
                   transfer_complete, received_bytes, video_data, segment_start_time,
                   last_chunk_time, next_stream_id, requests, stream_chunks, events_delivered,
                   stream_fin, seg_snapshot, dashVars, self_bitrates, probe,
                   results_dir, calculators, serverVars>>

\* the task running run is cancelled (task.cancel()) while request_next_segment
\* waits for transfer_complete and the stream has not ended: wait_for cancels
\* its inner wait and raises CancelledError some loop iterations later.  Once
\* the end_stream chunk has been handled the inner wait ends first, wait_for
\* catches the CancelledError and returns the wait's result: the cancellation
\* is lost and request_next_segment goes on as SegmentCompleted.
AwaitCancelled ==
    /\ run.phase = "streaming"
    /\ pc = "awaiting"
    /\ ~transfer_complete
    /\ pc' = "cancelling"
    /\ run' = run
    /\ stray_event' = FALSE
    /\ UNCHANGED <<now, calcVars, current_bitrate, segment_index, current_stream_id,
                   transfer_complete, received_bytes, video_data, segment_start_time,
                   last_chunk_time, next_stream_id, requests, stream_chunks, events_delivered,
                   stream_fin, seg_snapshot, dashVars, self_bitrates, probe,
                   results_dir, calculators, serverVars>>

\* the task is cancelled after the timer of wait_for has fired and before
\* wait_for has raised TimeoutError: CancelledError is raised in its place,
\* whether or not the end_stream chunk has arrived since
TimingOutCancelled ==
    /\ run.phase = "streaming"
    /\ pc = "timing_out"
    /\ pc' = "cancelling"
    /\ run' = run
    /\ stray_event' = FALSE
    /\ UNCHANGED <<now, calcVars, current_bitrate, segment_index, current_stream_id,
                   transfer_complete, received_bytes, video_data, segment_start_time,
                   last_chunk_time, next_stream_id, requests, stream_chunks, events_delivered,
                   stream_fin, seg_snapshot, dashVars, self_bitrates, probe,
                   results_dir, calculators, serverVars>>

\* the task is cancelled inside "await asyncio.sleep(0.5)"
SleepCancelled ==
    /\ run.phase = "streaming"
    /\ pc = "sleeping"
    /\ pc' = "cancelling"
    /\ run' = run
    /\ stray_event' = FALSE
    /\ UNCHANGED <<now, calcVars, current_bitrate, segment_index, current_stream_id,
                   transfer_complete, received_bytes, video_data, segment_start_time,
                   last_chunk_time, next_stream_id, requests, stream_chunks, events_delivered,
                   stream_fin, seg_snapshot, dashVars, self_bitrates, probe,
                   results_dir, calculators, serverVars>>

\* CancelledError leaves wait_for and request_next_segment, whose "except
\* asyncio.TimeoutError" does not catch it, or the sleep, and then the while
\* loop; the exit of "async with" closes the connection and waits for the close
CancelledLeavesLoop ==
    /\ pc = "cancelling"
    /\ pc' = "closing"
    /\ run' = run
    /\ stray_event' = FALSE
    /\ UNCHANGED <<now, calcVars, current_bitrate, segment_index, current_stream_id,
                   transfer_complete, received_bytes, video_data, segment_start_time,
                   last_chunk_time, next_stream_id, requests, stream_chunks, events_delivered,
                   stream_fin, seg_snapshot, dashVars, self_bitrates, probe,
                   results_dir, calculators, serverVars>>

\* the task is cancelled while the exit of "async with" waits for the close,
\* after request_next_segment returned False
CloseCancelled ==
    /\ run.phase = "streaming"
    /\ pc \in {"timed_out", "plan_done"}
    /\ pc' = "closing"
    /\ run' = run
    /\ stray_event' = FALSE
    /\ UNCHANGED <<now, calcVars, current_bitrate, segment_index, current_stream_id,
                   transfer_complete, received_bytes, video_data, segment_start_time,
                   last_chunk_time, next_stream_id, requests, stream_chunks, events_delivered,
                   stream_fin, seg_snapshot, dashVars, self_bitrates, probe,
                   results_dir, calculators, serverVars>>

\* the exit of "async with" is over: CancelledError, which "except Exception"
\* does not catch, leaves run, and nothing after the try statement runs
CancelledLeavesRun ==
    /\ pc = "closing"
    /\ pc' = "closed"
    /\ run' = [run EXCEPT !.phase = "cancelled"]
    /\ stray_event' = FALSE
    /\ UNCHANGED <<now, calcVars, current_bitrate, segment_index, current_stream_id,
                   transfer_complete, received_bytes, video_data, segment_start_time,
                   last_chunk_time, next_stream_id, requests, stream_chunks, events_delivered,
                   stream_fin, seg_snapshot, dashVars, self_bitrates, probe,
                   results_dir, calculators, serverVars>>

\* run, "Save all logs and metrics": save_qlog, then generate_summary_report
SaveLogsAndSummary ==
    /\ pc = "closed"
    /\ run.phase \in {"streaming", "failed"}
    /\ LET report == quic_generate_summary_report(qmc)
       IN run' = [phase |-> "reported",
                  summaries |-> IF report.summary = None THEN run.summaries
                                ELSE Append(run.summaries,
                                            [records |-> Len(qmc.segment_metrics),
                                             summary |-> report.summary[1]])]
    /\ UNCHANGED <<now, calcVars, quicVars, dashVars, self_bitrates, probe,
                   results_dir, calculators, serverVars>>

NextRun ==
    \/ Connected
    \/ ConnectFails
    \/ run.phase = "streaming" /\ NextQuic
    \/ \E delay \in ChunkDelays : FileNotFound(delay)
    \/ ConnectCancelled
    \/ AwaitCancelled
    \/ TimingOutCancelled
    \/ SleepCancelled
    \/ CancelledLeavesLoop
    \/ CloseCancelled
    \/ CancelledLeavesRun
    \/ SaveLogsAndSummary

SpecRun == Init /\ [][NextRun]_vars

(***************************************************************************)
(* The instances driver: MetricsCalculator instances of either client are  *)
(* constructed one after another in one working directory, at any moments  *)
(* of a clock that counts half seconds, and each records rows in any       *)
(* interleaving with the others.  An instance is kept with the name of its *)
(* metrics file and the rows it has recorded; the k-th row recorded by     *)
(* instance i is <<i, k>>.                                                 *)
(***************************************************************************)
MaxInstances == 2    \* instances constructed in one run of the instances driver
MaxTicks == 3        \* half seconds the driver's clock advances
MaxRows == 2         \* rows one instance records

TicksPerSecond == 2

Clients == {"quic", "dash"}

\* the half seconds gone by in a run of the instances driver
Ticks == IF probe.op = "instances" THEN probe.ticks ELSE 0

\* datetime.now().strftime('%Y%m%d_%H%M%S'): the moment, cut down to whole seconds
strftime_seconds(ticks) == ticks \div TicksPerSecond

\* results_dir / f"quic_metrics_{...}.csv" and
\* os.path.join(RESULTS_DIR, f"dash_metrics_{...}.csv")
metrics_file_name(client, ticks) == <<client, strftime_seconds(ticks)>>

\* _initialize_metrics_file: open(self.metrics_file, 'w') and the header row,
\* which leaves no row after the header whatever the file held
initialize_metrics_file(dir, name) ==
    [n \in (DOMAIN dir) \cup {name} |-> IF n = name THEN << >> ELSE dir[n]]

\* _save_metrics_to_csv: open(self.metrics_file, 'a') and one writerow
append_row(dir, name, row) == [dir EXCEPT ![name] = Append(@, row)]

TickClock ==
    /\ Ticks < MaxTicks
    /\ probe' = [op |-> "instances", ticks |-> Ticks + 1]
    /\ now' = strftime_seconds(Ticks + 1)
    /\ UNCHANGED <<calcVars, quicVars, dashVars, self_bitrates, sessionVars, serverVars>>

\* MetricsCalculator(): the file name is taken from the clock, the file is
\* opened for writing
CreateCalculator(client) ==
    /\ Len(calculators) < MaxInstances
    /\ LET name == metrics_file_name(client, Ticks)
       IN /\ results_dir' = initialize_metrics_file(results_dir, name)
          /\ calculators' = Append(calculators,
                                   [metrics_file |-> name, segment_metrics |-> << >>])
    /\ probe' = [op |-> "instances", ticks |-> Ticks]
    /\ UNCHANGED <<now, calcVars, quicVars, dashVars, self_bitrates, run, serverVars>>

\* record_segment_metrics / record_metrics of instance i, as far as the log and
\* the file go
RecordRow(i) ==
    /\ Len(calculators[i].segment_metrics) < MaxRows
    /\ LET row == <<i, Len(calculators[i].segment_metrics) + 1>>
       IN /\ calculators' = [calculators EXCEPT ![i].segment_metrics = Append(@, row)]
          /\ results_dir' = append_row(results_dir, calculators[i].metrics_file, row)
    /\ probe' = [op |-> "instances", ticks |-> Ticks]
    /\ UNCHANGED <<now, calcVars, quicVars, dashVars, self_bitrates, run, serverVars>>

NextInstances ==
    \/ TickClock
    \/ \E client \in Clients : CreateCalculator(client)
    \/ \E i \in 1..Len(calculators) : RecordRow(i)

SpecInstances == Init /\ [][NextInstances]_vars

(***************************************************************************)
(* quic_server.py: the VideoStreamHandler answering GET requests.          *)
(* quic_event_received starts a handle_stream_data task for every request  *)
(* at once, so transfers run side by side, each suspended in the           *)
(* asyncio.sleep(0.001) that follows a chunk.  server.transfers lists the  *)
(* tasks in the order of their requests, each with the length of the file  *)
(* asked for (None if the file does not exist), the send_stream_data calls *)
(* made on its stream, in order, as (offset in the file, length,           *)
(* end_stream), the value i that range() hands out next, and whether the   *)
(* task has returned.                                                      *)
(***************************************************************************)
MaxServed == 2

\* "chunk_size = 16 * 1024"
chunk_size == 16 * 1024

\* len(file_data) of the files asked for: empty, one byte, one chunk, one
\* chunk and a byte, two chunks, two chunks and a rest
FileLengths == {0, 1, chunk_size, chunk_size + 1, 2 * chunk_size, 40000}

\* file_data[i:i + chunk_size], as its length
chunk_length(file_len, i) == IF i + chunk_size <= file_len THEN chunk_size ELSE file_len - i

\* "is_final_chunk = (i + chunk_size >= len(file_data))"
is_final_chunk(file_len, i) == i + chunk_size >= file_len

\* one turn of "for i in range(0, len(file_data), chunk_size)" up to the sleep
send_chunk(file_len, i) ==
    [offset |-> i, length |-> chunk_length(file_len, i),
     end_stream |-> is_final_chunk(file_len, i)]

\* handle_stream_data, "GET <filename>": the file does not exist, the error
\* message goes out with end_stream and the task returns
HandleMissingFile ==
    /\ Len(server.transfers) < MaxServed
    /\ server' = [server EXCEPT !.transfers =
                      Append(@, [file_len |-> None, i |-> 0,
                                 sent |-> << [offset |-> 0,
                                              length |-> error_msg_length(bitrates[1], 0),
                                              end_stream |-> TRUE] >>,
                                 returned |-> TRUE])]
    /\ UNCHANGED <<now, calcVars, quicVars, dashVars, self_bitrates, probe, sessionVars>>

\* handle_stream_data, "GET <filename>": the file exists; send_video_file reads
\* it whole and runs to its first sleep, after the first chunk, or, with no
\* byte to send, to its end
HandleStreamData(file_len) ==
    /\ Len(server.transfers) < MaxServed
    /\ server' = [server EXCEPT !.transfers =
                      Append(@, IF file_len > 0
                                THEN [file_len |-> <<file_len>>, i |-> chunk_size,
                                      sent |-> <<send_chunk(file_len, 0)>>,
                                      returned |-> FALSE]
                                ELSE [file_len |-> <<file_len>>, i |-> 0,
                                      sent |-> << >>, returned |-> TRUE])]
    /\ UNCHANGED <<now, calcVars, quicVars, dashVars, self_bitrates, probe, sessionVars>>

\* send_video_file of task t wakes from its sleep: the next turn of the loop
SendChunk(t) ==
    /\ ~server.transfers[t].returned
    /\ server.transfers[t].i < server.transfers[t].file_len[1]
    /\ server' = [server EXCEPT
           !.transfers[t].i = @ + chunk_size,
           !.transfers[t].sent =
               Append(@, send_chunk(server.transfers[t].file_len[1],
                                    server.transfers[t].i))]
    /\ UNCHANGED <<now, calcVars, quicVars, dashVars, self_bitrates, probe, sessionVars>>

\* send_video_file of task t wakes from its sleep with the range exhausted:
\* "File transfer complete", the task returns
SendReturns(t) ==
    /\ ~server.transfers[t].returned
    /\ server.transfers[t].i >= server.transfers[t].file_len[1]
    /\ server' = [server EXCEPT !.transfers[t].returned = TRUE]
    /\ UNCHANGED <<now, calcVars, quicVars, dashVars, self_bitrates, probe, sessionVars>>

NextServer ==
    \/ HandleMissingFile
    \/ \E file_len \in FileLengths : HandleStreamData(file_len)
    \/ \E t \in 1..Len(server.transfers) : SendChunk(t)
    \/ \E t \in 1..Len(server.transfers) : SendReturns(t)

SpecServer == Init /\ [][NextServer]_vars

(***************************************************************************)
(* One run of either client.  The two clients are separate programs: a run *)
(* is a multiplexed session or an execution of the chunked-HTTP script.    *)
(***************************************************************************)
QuicIdle == pc = "connected" /\ requests = << >> /\ ~stray_event
DashIdle == d_pc = "init"

NextSession ==
    \/ DashIdle /\ NextQuic
    \/ QuicIdle /\ NextDash

SpecSession == Init /\ [][NextSession]_vars

(***************************************************************************)
(* Claims about the buffer model, checked under SpecBuf.                   *)
(***************************************************************************)

\* C1: for every sequence of updates with non-negative elapsed times, partial
\* or complete, the buffer level of neither calculator is ever negative.
C1_BufferNeverNegative ==
    /\ qmc.buffer_level >= 0
    /\ dmc.buffer_level >= 0

\* an elapsed time has used up a positive level a second time, and the chunked
\* calculator has been debited too
C1_Witness ==
    /\ qobs.dry_intervals >= 2
    /\ qmc.buffer_level = 0
    /\ dobs.updates >= 2

\* C2: in the multiplexed calculator rebuffering_count is the number of maximal
\* intervals with buffer_level <= 0 begun so far: one increment per interval,
\* however many partial observations are applied in it.
C2_OneStallPerDryInterval == qmc.rebuffering_count = qobs.dry_intervals

\* a second stall, begun after a credit ended the first, with two partial
\* observations applied while it lasts
C2_Witness ==
    /\ qmc.rebuffering_count = 2
    /\ qobs.partials >= 2
    /\ qmc.buffer_level <= 0

RECURSIVE ClosedStallTime(_)
ClosedStallTime(stalls) ==
    IF stalls = << >> THEN 0
    ELSE (IF stalls[1].closed = None THEN 0
          ELSE stalls[1].closed[1] - stalls[1].marked) + ClosedStallTime(Tail(stalls))

\* C3: total_rebuffering_duration is the sum over the closed stalls of (clock
\* read when the stall closed - clock read when it was marked), an open stall
\* adding nothing, and it never decreases.
C3_TotalIsSumOfClosedStalls ==
    /\ [](/\ qmc.total_rebuffering_duration = ClosedStallTime(qobs.stalls)
          /\ dmc.total_rebuffering_duration = ClosedStallTime(dobs.stalls))
    /\ [][/\ qmc.total_rebuffering_duration' >= qmc.total_rebuffering_duration
          /\ dmc.total_rebuffering_duration' >= dmc.total_rebuffering_duration]_vars

\* two closed stalls that took time and a third still open
C3_Witness ==
    /\ Len(qobs.stalls) = 3
    /\ qobs.stalls[1].closed /= None /\ qobs.stalls[1].closed[1] > qobs.stalls[1].marked
    /\ qobs.stalls[2].closed /= None /\ qobs.stalls[2].closed[1] > qobs.stalls[2].marked
    /\ qobs.stalls[3].closed = None
    /\ dmc.total_rebuffering_duration > 0

StallMarkedIffDry(mc) == (mc.rebuffering_start_time /= None) <=> (mc.buffer_level <= 0)

\* C4 as stated: in every reachable state, the initial one included,
\* rebuffering_start_time is set iff buffer_level <= 0.
C4_MarkedIffDry_Original ==
    /\ StallMarkedIffDry(qmc)
    /\ StallMarkedIffDry(dmc)

\* C4 as amended: after at least one update_buffer call on a calculator, its
\* rebuffering_start_time is set iff its buffer_level <= 0.
C4_MarkedIffDry_AfterUpdate ==
    /\ qobs.updates > 0 => StallMarkedIffDry(qmc)
    /\ dobs.updates > 0 => StallMarkedIffDry(dmc)

\* both sides of the equivalence have been seen after updates: the multiplexed
\* calculator dry and marked, the chunked one credited and unmarked
C4_Witness ==
    /\ qobs.updates > 1
    /\ qmc.buffer_level <= 0 /\ qmc.rebuffering_start_time /= None
    /\ dobs.updates > 0
    /\ dmc.buffer_level > 0 /\ dmc.rebuffering_start_time = None

\* C25: while every update so far was a complete one (applied to both
\* calculators, with the same elapsed times, from the same initial state), the
\* two calculators agree on buffer level, rebuffering_count and stall marker.
C25_ChunkedEqualsFinal ==
    qobs.updates = dobs.updates =>
        /\ dmc.buffer_level = qmc.buffer_level
        /\ dmc.rebuffering_count = qmc.rebuffering_count
        /\ dmc.rebuffering_start_time = qmc.rebuffering_start_time

\* C26: in both calculators every update that was applied to a positive level
\* with an elapsed time of at least that level has recorded a stall:
\* rebuffering_count is at least the number of dry intervals begun.
C26_DryDebitRecordsStall ==
    /\ qmc.rebuffering_count >= qobs.dry_intervals
    /\ dmc.rebuffering_count >= dobs.dry_intervals


(***************************************************************************)
(* Claims about the multiplexed session, checked under SpecQuic.           *)
(***************************************************************************)
Log == qmc.segment_metrics

\* the records of segment index i with the given is_complete
RecordsOf(i, complete) ==
    {k \in 1..Len(Log) : Log[k].segment_index = i /\ Log[k].is_complete = complete}

\* C5: after a segment's final observation, buffer level and rebuffering_count
\* are what one single final observation with the segment's total elapsed time
\* would have left, applied to the state the segment was requested in.
C5_CadenceIndependent ==
    pc = "sleeping" =>
        LET one == quic_update_buffer(seg_snapshot, last_chunk_time, TRUE, now, now).mc
        IN /\ qmc.buffer_level = one.buffer_level
           /\ qmc.rebuffering_count = one.rebuffering_count

\* C6: a record call with is_complete = FALSE debits the elapsed time from a
\* positive buffer level, never raises the level and leaves playback_position
\* as it was; a call with is_complete = TRUE adds segment_duration to the
\* debited level.
C6_PartialDebitsNeverCredits ==
    [][Len(qmc'.segment_metrics) = Len(qmc.segment_metrics) + 1 =>
        LET r == qmc'.segment_metrics[Len(qmc'.segment_metrics)]
            debited == IF qmc.buffer_level > 0
                       THEN Max(0, qmc.buffer_level - r.download_time_sec)
                       ELSE qmc.buffer_level
        IN IF r.is_complete
           THEN qmc'.buffer_level = debited + SegmentDuration
           ELSE /\ qmc'.buffer_level = debited
                /\ qmc'.buffer_level <= qmc.buffer_level
                /\ qmc'.playback_position = qmc.playback_position]_vars

\* a chunk record has lowered a positive buffer level, with a playback position
\* that an earlier completed segment had set
C6_Witness ==
    /\ Len(Log) >= 2
    /\ ~Log[Len(Log)].is_complete
    /\ Log[Len(Log) - 1].buffer_level_sec > 0
    /\ Log[Len(Log)].buffer_level_sec < Log[Len(Log) - 1].buffer_level_sec
    /\ Log[Len(Log)].download_time_sec > 0
    /\ segment_index > 0

\* C7 as stated: a timed-out segment has exactly one record with is_complete =
\* FALSE for its index, and that record's elapsed time is the timeout.
C7_OneIncompleteRecord_Original ==
    pc = "timed_out" =>
        /\ Cardinality(RecordsOf(segment_index, FALSE)) = 1
        /\ \A k \in RecordsOf(segment_index, FALSE) :
               Log[k].download_time_sec = WaitTimeout

\* C7 as amended: the timeout handler appends exactly one record, with
\* is_complete = FALSE, elapsed time 30 and the segment's index; every chunk
\* delivered on the segment's stream has its own is_complete = FALSE record, so
\* a timed-out segment has 1 + (chunks delivered) such records and no
\* is_complete = TRUE record.
C7_OneTimeoutRecord ==
    /\ [](pc = "timed_out" =>
            /\ Cardinality(RecordsOf(segment_index, FALSE)) = stream_chunks + 1
            /\ RecordsOf(segment_index, TRUE) = {}
            /\ \E k \in RecordsOf(segment_index, FALSE) :
                   Log[k].download_time_sec = WaitTimeout)
    /\ [][pc = "timing_out" /\ pc' = "timed_out" =>
            /\ Len(qmc'.segment_metrics) = Len(qmc.segment_metrics) + 1
            /\ SubSeq(qmc'.segment_metrics, 1, Len(qmc.segment_metrics))
                   = qmc.segment_metrics
            /\ LET r == qmc'.segment_metrics[Len(qmc'.segment_metrics)]
               IN /\ ~r.is_complete
                  /\ r.download_time_sec = WaitTimeout
                  /\ r.segment_index = segment_index
                  /\ r.segment_size_bytes = received_bytes]_vars

\* the second segment timed out after one chunk: the chunk's record, then the
\* timeout's
C7_Witness ==
    /\ pc = "timed_out"
    /\ segment_index = 1
    /\ stream_chunks = 1
    /\ Cardinality(RecordsOf(segment_index, FALSE)) = 2
    /\ Log[Len(Log)].download_time_sec = WaitTimeout
    /\ Log[Len(Log) - 1].download_time_sec < WaitTimeout

\* C8: a timeout does not end the session while segment indices remain: the
\* connection is closed only when the plan is exhausted.
C8_TimeoutAdvances ==
    pc = "closed" => segment_index >= segments_per_bitrate

\* C10: a request is sent only when the segment before it has its completed
\* record as the last record of the log, and an event of a stream other than
\* the current one changes neither the calculator (no record) nor
\* received_bytes.
C10_OneRequestOutstanding ==
    [][/\ requests' /= requests =>
            /\ pc = "connected"
            /\ \/ requests = << >> /\ Log = << >>
               \/ /\ Log /= << >>
                  /\ Log[Len(Log)].is_complete
                  /\ Log[Len(Log)].segment_index = segment_index - 1
                  /\ Cardinality(RecordsOf(segment_index - 1, TRUE)) = 1
            /\ Len(requests) = segment_index
       /\ stray_event' =>
            /\ qmc' = qmc
            /\ received_bytes' = received_bytes
            /\ requests' = requests]_vars

\* an event of the first request's stream arrives while the second request is
\* awaited with bytes already received
C10_Witness ==
    /\ stray_event
    /\ pc = "awaiting"
    /\ Len(requests) = 2
    /\ received_bytes > 0
    /\ ~transfer_complete

\* C29: a record has bitrate_switch = 1 only if there is a record before it
\* and their bitrates differ; and a record appended when the current
\* representation is no longer the one of the last record (an ABR decision
\* changed it since) has bitrate_switch = 1.
C29_SwitchFlagFollowsDecision ==
    /\ [](\A k \in 1..Len(Log) :
            Log[k].bitrate_switch = 1 => (k > 1 /\ Log[k].bitrate /= Log[k - 1].bitrate))
    /\ [][(/\ Len(qmc'.segment_metrics) = Len(qmc.segment_metrics) + 1
           /\ qmc.segment_metrics /= << >>
           /\ current_bitrate * 1000
                  /= qmc.segment_metrics[Len(qmc.segment_metrics)].bitrate)
          => qmc'.segment_metrics[Len(qmc'.segment_metrics)].bitrate_switch = 1]_vars

\* segment 0 completed at 360, the decision stepped up to 720, and the next
\* record, a chunk of segment 1, carries the switch
C29_Witness ==
    /\ Len(Log) >= 2
    /\ Log[Len(Log) - 1].is_complete
    /\ Log[Len(Log) - 1].bitrate = 360000
    /\ Log[Len(Log)].bitrate = 720000
    /\ Log[Len(Log)].bitrate_switch = 1
    /\ ~Log[Len(Log)].is_complete
    /\ qmc.bitrate_switches = 1

\* C30: current_bitrate and segment_index change only in a step that appends
\* a completed (is_complete = TRUE) record; a step that appends a chunk or
\* timeout record (is_complete = FALSE) changes neither.
C30_DecisionsOnlyAtFinal ==
    [][/\ (current_bitrate' /= current_bitrate \/ segment_index' /= segment_index)
          => /\ Len(qmc'.segment_metrics) = Len(qmc.segment_metrics) + 1
             /\ qmc'.segment_metrics[Len(qmc'.segment_metrics)].is_complete
       /\ (/\ Len(qmc'.segment_metrics) = Len(qmc.segment_metrics) + 1
           /\ ~qmc'.segment_metrics[Len(qmc'.segment_metrics)].is_complete)
          => /\ current_bitrate' = current_bitrate
             /\ segment_index' = segment_index]_vars

\* a chunk of segment 1 was recorded after the decision at the end of segment
\* 0 had changed the representation: index and representation are still those
\* the decision left
C30_Witness ==
    /\ pc = "awaiting"
    /\ segment_index = 1
    /\ current_bitrate = 720
    /\ stream_chunks = 1
    /\ ~Log[Len(Log)].is_complete
    /\ Log[Len(Log)].segment_index = 1


\* the goodput-efficiency line of the summary of the log as it stands
GoodputEfficiency == quic_generate_summary_report(qmc).summary[1].goodput_efficiency

\* C33: every record is made at a positive bitrate and its goodput is
\* min(throughput, bitrate), so it never exceeds the record's throughput, and
\* the goodput efficiency of the summary, when written, is at most 100%.
C33_GoodputBounded ==
    /\ \A k \in 1..Len(Log) :
          /\ Log[k].bitrate > 0
          /\ Log[k].goodput_bps = RMin(Log[k].throughput_bps, Kbps(Log[k].bitrate))
          /\ ~RLess(Log[k].throughput_bps, Log[k].goodput_bps)
    /\ (Log /= << >> /\ GoodputEfficiency /= None) =>
          \/ GoodputEfficiency[1].whole < 100
          \/ GoodputEfficiency[1] = [whole |-> 100, part |-> RInt(0)]

\* a log with a record measured above its bitrate, whose goodput is the
\* bitrate, and a record measured below it; the efficiency is under 100%
C33_Witness ==
    /\ \E k \in 1..Len(Log) : RLess(Kbps(Log[k].bitrate), Log[k].throughput_bps)
                              /\ Log[k].goodput_bps = Kbps(Log[k].bitrate)
    /\ \E k \in 1..Len(Log) : RLess(RInt(0), Log[k].throughput_bps)
                              /\ RLess(Log[k].throughput_bps, Kbps(Log[k].bitrate))
    /\ GoodputEfficiency /= None
    /\ GoodputEfficiency[1].whole < 100

\* C35: the timeout record is appended as the last record of the log, by the
\* step in which request_next_segment returns False, and from then on (the
\* connection is closed in that step, the session ends) no step appends a
\* record; a session that ended before its plan was exhausted has the timeout
\* record of its last segment as its last record.
C35_TimeoutRecordIsLast ==
    /\ [][(pc = "timing_out" /\ pc' = "timed_out") =>
              /\ Len(qmc'.segment_metrics) = Len(qmc.segment_metrics) + 1
              /\ qmc'.segment_metrics[Len(qmc'.segment_metrics)].download_time_sec
                     = WaitTimeout]_vars
    /\ [][(pc = "timed_out" \/ pc = "closed") =>
              qmc'.segment_metrics = qmc.segment_metrics]_vars
    /\ []((pc = "timed_out" \/ (pc = "closed" /\ segment_index < segments_per_bitrate)) =>
              /\ Log /= << >>
              /\ ~Log[Len(Log)].is_complete
              /\ Log[Len(Log)].download_time_sec = WaitTimeout
              /\ Log[Len(Log)].segment_index = segment_index
              /\ Log[Len(Log)].segment_size_bytes = received_bytes)

\* the second segment timed out; its last chunk, with end_stream, was handled
\* after the timer had fired and is recorded before the timeout record, which
\* is the last record of the ended session
C35_Witness ==
    /\ pc = "closed"
    /\ segment_index = 1
    /\ transfer_complete
    /\ Len(Log) = 4
    /\ ~Log[3].is_complete
    /\ Log[3].segment_index = 1
    /\ Log[3].download_time_sec >= WaitTimeout
    /\ Log[3].segment_size_bytes = received_bytes
    /\ Log[4].download_time_sec = WaitTimeout
    /\ Log[4].segment_size_bytes = received_bytes

\* C36: in the metric log of the multiplexed session the segment indices never
\* decrease; a segment has at most one completed record, every chunk record of
\* the segment comes before it, and it comes before every record of the next
\* segment.
C36_LogOrderedBySegment ==
    \A i, j \in 1..Len(Log) :
        /\ i < j => Log[i].segment_index <= Log[j].segment_index
        /\ (i /= j /\ Log[j].is_complete
                   /\ Log[i].segment_index = Log[j].segment_index)
               => (i < j /\ ~Log[i].is_complete)
        /\ (Log[i].is_complete /\ Log[j].segment_index = Log[i].segment_index + 1)
               => i < j

\* chunk and completed record of segment 0, then chunk and completed record of
\* segment 1
C36_Witness ==
    /\ Len(Log) = 4
    /\ Log[1].segment_index = 0 /\ ~Log[1].is_complete
    /\ Log[2].segment_index = 0 /\ Log[2].is_complete
    /\ Log[3].segment_index = 1 /\ ~Log[3].is_complete
    /\ Log[4].segment_index = 1 /\ Log[4].is_complete

\* the completed observations among the first n records of the log
CompletedUpTo(n) == Cardinality({k \in 1..n : Log[k].is_complete})

\* C37: the buffer is credited segment_duration once per completed observation
\* and by nothing else: the level, now and in every record, is at most the
\* number of completed observations so far times segment_duration, and a chunk
\* or timeout record never shows a higher level than the record before it.
C37_CreditOnlyPerCompleted ==
    /\ qmc.buffer_level <= CompletedUpTo(Len(Log)) * qmc.segment_duration
    /\ \A k \in 1..Len(Log) :
          /\ Log[k].buffer_level_sec <= CompletedUpTo(k) * qmc.segment_duration
          /\ ~Log[k].is_complete =>
                Log[k].buffer_level_sec <= (IF k = 1 THEN 0 ELSE Log[k - 1].buffer_level_sec)

\* two segments completed with their chunks, nothing played out: the level is
\* exactly two segment durations
C37_Witness ==
    /\ CompletedUpTo(Len(Log)) = 2
    /\ \E k \in 1..Len(Log) : ~Log[k].is_complete
    /\ qmc.buffer_level = 2 * qmc.segment_duration

\* C40: the bitrate_switches counter of the multiplexed calculator equals the
\* number of records of its log with bitrate_switch = 1 (and is what the
\* summary reports), and the first record of a session is never flagged.
C40_SwitchCounterMatchesFlags ==
    /\ qmc.bitrate_switches = Cardinality({k \in 1..Len(Log) : Log[k].bitrate_switch = 1})
    /\ Log /= << >> =>
          /\ Log[1].bitrate_switch = 0
          /\ quic_generate_summary_report(qmc).summary[1].bitrate_switches
                 = Cardinality({k \in 1..Len(Log) : Log[k].bitrate_switch = 1})

\* a session whose second segment was fetched at another bitrate: its chunk
\* record is the one flagged record, later records of the segment are not
C40_Witness ==
    /\ Len(Log) >= 4
    /\ qmc.bitrate_switches = 1
    /\ Log[3].bitrate_switch = 1
    /\ Log[4].bitrate_switch = 0
    /\ Log[4].bitrate = Log[3].bitrate
    /\ Log[3].bitrate /= Log[1].bitrate

(***************************************************************************)
(* Claims about a run of either client, checked under SpecSession.         *)
(***************************************************************************)

\* C11: no segment index is requested twice in a run: the indices of the GETs
\* sent are pairwise different, in the multiplexed session and in the script.
C11_IndexRequestedOnce ==
    /\ \A j, k \in 1..Len(requests) :
           j /= k => requests[j].video_name[2] /= requests[k].video_name[2]
    /\ \A j, k \in 1..Len(d_requests) :
           j /= k => d_requests[j].index /= d_requests[k].index

\* the second segment of a multiplexed session timed out and the session is
\* over: index 1 was requested once, index 0 once
C11_Witness ==
    /\ pc = "closed"
    /\ Len(requests) = 2
    /\ ~Log[Len(Log)].is_complete
    /\ Log[Len(Log)].segment_index = 1

\* the records of a log whose is_rebuffering flag is set
Flagged(m) == {k \in 1..Len(m) : m[k].is_rebuffering}

\* C27: in each calculator the number of records with is_rebuffering = TRUE is
\* rebuffering_count, and a record appended while a stall is marked has
\* is_rebuffering = FALSE.
C27_FlagMarksNewStall ==
    /\ [](/\ Cardinality(Flagged(qmc.segment_metrics)) = qmc.rebuffering_count
          /\ Cardinality(Flagged(dmc.segment_metrics)) = dmc.rebuffering_count)
    /\ [][/\ (/\ Len(qmc'.segment_metrics) = Len(qmc.segment_metrics) + 1
              /\ qmc.rebuffering_start_time /= None)
             => ~qmc'.segment_metrics[Len(qmc'.segment_metrics)].is_rebuffering
          /\ (/\ Len(dmc'.segment_metrics) = Len(dmc.segment_metrics) + 1
              /\ dmc.rebuffering_start_time /= None)
             => ~dmc'.segment_metrics[Len(dmc'.segment_metrics)].is_rebuffering]_vars

\* the first record marked a stall and left it open, the second was applied
\* while it was marked and reports FALSE, and a later record marked a second
\* stall
C27_Witness ==
    /\ Len(Log) >= 3
    /\ Log[1].is_rebuffering /\ Log[1].buffer_level_sec = 0
    /\ ~Log[2].is_rebuffering
    /\ Log[Len(Log)].is_rebuffering
    /\ qmc.rebuffering_count = 2

\* C31: a step that takes an ABR decision leaves each calculator as the record
\* made just before the decision left it, but for the switch history of the
\* chunked-HTTP client: buffer level, stall state, rebuffer totals, windows and
\* log owe nothing to the decision.
C31_DecisionLeavesCalculatorAlone ==
    [][/\ segment_index' /= segment_index =>
              qmc' = quic_record_segment_metrics(qmc, segment_index,
                         current_bitrate * 1000, received_bytes,
                         now - segment_start_time, now, TRUE, now, now).mc
       /\ (d_pc = "seg_wait" /\ d_pc' = "loop") =>
              LET r == dmc'.segment_metrics[Len(dmc'.segment_metrics)]
              IN [dmc' EXCEPT !.bitrate_history = dmc.bitrate_history]
                     = dash_record_metrics(dmc, d_i + 1, representations[current_rep].id,
                           representations[current_rep].bandwidth, r.segment_size_bytes,
                           r.download_time_sec, now', now', now').mc]_vars

\* the script's second decision changed the representation again, on a
\* calculator with two throughput samples, three records and a credited buffer
C31_Witness ==
    /\ d_pc = "loop"
    /\ Len(dmc.bitrate_history) = 2
    /\ Len(dmc.throughput_history) >= 2
    /\ Len(dmc.segment_metrics) = 3
    /\ dmc.segment_metrics[3].representation_id /= representations[current_rep].id
    /\ dmc.buffer_level > 0


(***************************************************************************)
(* Claims about the hysteresis decision, checked under SpecAbr.            *)
(***************************************************************************)
RungOf(bitrate) == CHOOSE k \in 1..Len(self_bitrates) : self_bitrates[k] = bitrate

\* C12: with the current rung i and throughput t = n/d, the next rung is i+1 if
\* t > 1.5 * bitrate[i] and i is not the top rung, otherwise i-1 if
\* t < 0.8 * bitrate[i] and i is not the bottom rung, otherwise i.
C12_HysteresisRule ==
    probe.op = "abr" =>
        LET i == RungOf(probe.before)
            n == probe.throughput[1]
            d == probe.throughput[2]
            above == 2 * n > 3 * probe.before * d
            below == 5 * n < 4 * probe.before * d
            next == IF above /\ i < Len(self_bitrates) THEN i + 1
                    ELSE IF below /\ i > 1 THEN i - 1
                    ELSE i
        IN current_bitrate = self_bitrates[next]

\* a third decision stepped down from 720, where earlier decisions had led
C12_Witness ==
    /\ probe.op = "abr"
    /\ probe.steps = 3
    /\ probe.before = 720
    /\ probe.throughput = RInt(541)
    /\ current_bitrate = 360

\* C13: one decision moves the ladder index by at most one rung.
C13_OneRungPerDecision ==
    probe.op = "abr" => Abs(RungOf(current_bitrate) - RungOf(probe.before)) <= 1

\* ladder [1, 2, 4, 8], current 1, throughput 50: the decision yields 2
C13_Witness ==
    /\ probe.op = "abr"
    /\ self_bitrates = <<1, 2, 4, 8>>
    /\ probe.before = 1
    /\ probe.throughput = RInt(50)
    /\ current_bitrate = 2


\* C39: the current bitrate of the multiplexed client is a member of its ladder
\* in every state, the ladder's minimum before the first decision, so the
\* index lookup of each ABR decision finds it.
C39_BitrateOnLadder ==
    /\ \E k \in 1..Len(self_bitrates) : self_bitrates[k] = current_bitrate
    /\ self_bitrates[IndexOf(self_bitrates, current_bitrate)] = current_bitrate
    /\ probe.op = "construct" => current_bitrate = SeqMin(self_bitrates)

\* three decisions, the last a step down from the top rung of the ladder
C39_Witness ==
    /\ probe.op = "abr"
    /\ probe.steps = 3
    /\ probe.before = self_bitrates[Len(self_bitrates)]
    /\ current_bitrate = self_bitrates[Len(self_bitrates) - 1]
    /\ self_bitrates = <<360, 720, 1080>>

(***************************************************************************)
(* Claims about the threshold decision, checked under SpecThreshold.       *)
(***************************************************************************)

\* the representations whose bandwidth (bit/s) is strictly below 0.8 times the
\* smoothed throughput n/d (kbit/s)
Qualifying(n, d) ==
    {k \in 1..Len(representations) : representations[k].bandwidth * 5 * d < 4000 * n}

\* C14: the representation after a decision is the one of highest bandwidth
\* among those whose bandwidth is strictly below smoothed throughput * 0.8, or
\* the one of lowest bandwidth when there is none.
C14_ThresholdRule ==
    probe.op = "threshold" =>
        LET q == Qualifying(probe.smoothed[1], probe.smoothed[2])
            chosen == representations[current_rep].bandwidth
        IN IF q /= {}
           THEN /\ current_rep \in q
                /\ \A k \in q : representations[k].bandwidth <= chosen
           ELSE \A k \in 1..Len(manifest) : chosen <= manifest[k].bandwidth

\* 1.5 Mbit/s selects the 1 Mbit/s representation, coming from another one, and
\* the decision before it was taken at 100 kbit/s
C14_Witness ==
    /\ probe.op = "threshold"
    /\ probe.steps >= 2
    /\ probe.smoothed = RInt(1500)
    /\ representations[probe.before].bandwidth = 500000
    /\ representations[current_rep].bandwidth = 1000000


(***************************************************************************)
(* Claims about the sample windows, checked under SpecWindow.              *)
(***************************************************************************)
Pushed == IF probe.op = "window" THEN probe.pushed ELSE << >>

\* the last n of the samples pushed, oldest first
LastPushed(n) == SubSeq(Pushed, Max(1, Len(Pushed) - n + 1), Len(Pushed))

RECURSIVE IntSum(_)
IntSum(seq) == IF seq = << >> THEN 0 ELSE seq[1] + IntSum(Tail(seq))

\* window holds the integer samples of seq, in order
HoldsSamples(window, seq) ==
    /\ Len(window) = Len(seq)
    /\ \A k \in 1..Len(seq) : window[k] = <<seq[k], 1>>

\* the fraction m is the arithmetic mean of the integers of seq, 0 for none
IsMeanOf(m, seq) ==
    IF seq = << >> THEN m = <<0, 1>> ELSE m[1] * Len(seq) = IntSum(seq) * m[2]

\* C15: the throughput windows hold the last 5 samples pushed and the RTT
\* window the last 10, oldest first, and each smoothed value is the mean of the
\* samples its window holds, 0 for an empty window.
C15_WindowsFifoMean ==
    /\ HoldsSamples(qmc.throughput_history, LastPushed(ThroughputWindow))
    /\ HoldsSamples(dmc.throughput_history, LastPushed(ThroughputWindow))
    /\ HoldsSamples(qmc.rtt_history, LastPushed(RttWindow))
    /\ IsMeanOf(quic_get_smoothed_throughput(qmc), LastPushed(ThroughputWindow))
    /\ IsMeanOf(dash_get_smoothed_throughput(dmc), LastPushed(ThroughputWindow))
    /\ IsMeanOf(quic_get_smoothed_rtt(qmc), LastPushed(RttWindow))

\* 10, 20, 30, 40, 50, 60 pushed: the throughput windows have evicted the 10 and
\* their mean is 40, the RTT window still holds all six
C15_Witness ==
    /\ Pushed = <<10, 20, 30, 40, 50, 60>>
    /\ qmc.throughput_history[1] = <<20, 1>>
    /\ quic_get_smoothed_throughput(qmc) = <<40, 1>>
    /\ dash_get_smoothed_throughput(dmc) = <<40, 1>>
    /\ Len(qmc.rtt_history) = 6


(***************************************************************************)
(* Claims about the metric log, checked under SpecRecord.                  *)
(***************************************************************************)
DLog == dmc.segment_metrics

IsPrefix(a, b) == Len(a) <= Len(b) /\ SubSeq(b, 1, Len(a)) = a

\* the observations the records of a log were made from, in the log's order
LogObservations(m) ==
    [k \in 1..Len(m) |->
        [segment_index |-> m[k].segment_index, segment_size |-> m[k].segment_size_bytes,
         download_time |-> m[k].download_time_sec, timestamp |-> m[k].timestamp]]

\* the same from the rows of the multiplexed client's file and of the script's
QuicRowObservations(rows) ==
    [k \in 1..Len(rows) |->
        [segment_index |-> rows[k][2], segment_size |-> rows[k][4],
         download_time |-> rows[k][5], timestamp |-> rows[k][1]]]

DashRowObservations(rows) ==
    [k \in 1..Len(rows) |->
        [segment_index |-> rows[k][2], segment_size |-> rows[k][5],
         download_time |-> rows[k][6], timestamp |-> rows[k][1]]]

\* C16: a record call that returns appends exactly one record; no step changes
\* or removes an earlier record or row; the log and the persisted rows list the
\* observations in the order they were reported (all of them while every call
\* has returned).
C16_AppendOnlyInOrder ==
    /\ [](probe.op = "record" =>
            /\ IsPrefix(LogObservations(Log), probe.reported_q)
            /\ IsPrefix(LogObservations(DLog), probe.reported_d)
            /\ IsPrefix(QuicRowObservations(qmc.metrics_file), probe.reported_q)
            /\ IsPrefix(DashRowObservations(dmc.metrics_file), probe.reported_d)
            /\ ~probe.died =>
                   /\ LogObservations(Log) = probe.reported_q
                   /\ LogObservations(DLog) = probe.reported_d
                   /\ QuicRowObservations(qmc.metrics_file) = probe.reported_q
                   /\ DashRowObservations(dmc.metrics_file) = probe.reported_d)
    /\ [][/\ IsPrefix(qmc.segment_metrics, qmc'.segment_metrics)
          /\ IsPrefix(dmc.segment_metrics, dmc'.segment_metrics)
          /\ IsPrefix(qmc.metrics_file, qmc'.metrics_file)
          /\ IsPrefix(dmc.metrics_file, dmc'.metrics_file)
          /\ Len(qmc'.segment_metrics) + Len(dmc'.segment_metrics)
                 <= Len(qmc.segment_metrics) + Len(dmc.segment_metrics) + 1
          /\ (probe'.op = "record" /\ ~probe'.died /\ probe'.summary = None) =>
                 Len(qmc'.segment_metrics) + Len(dmc'.segment_metrics)
                     = Len(qmc.segment_metrics) + Len(dmc.segment_metrics) + 1]_vars

\* three calls have returned, two on the multiplexed calculator with different
\* elapsed times and one on the script's
C16_Witness ==
    /\ probe.op = "record"
    /\ ~probe.died
    /\ Len(Log) = 2
    /\ Log[1].download_time_sec > Log[2].download_time_sec
    /\ Len(qmc.metrics_file) = 2
    /\ Len(dmc.metrics_file) = 1

\* C17: in every state, those where the process died inside a record call
\* included, the persisted rows are the rows of a prefix of the in-memory log
\* that lacks at most its last record, and of the whole log when every call has
\* returned.
C17_PersistedPrefix ==
    LET qrows == [k \in 1..Len(Log) |-> quic_csv_row(Log[k])]
        drows == [k \in 1..Len(DLog) |-> dash_csv_row(DLog[k])]
    IN /\ IsPrefix(qmc.metrics_file, qrows)
       /\ IsPrefix(dmc.metrics_file, drows)
       /\ Len(Log) - Len(qmc.metrics_file) <= 1
       /\ Len(DLog) - Len(dmc.metrics_file) <= 1
       /\ (probe.op = "record" /\ ~probe.died) =>
              /\ qmc.metrics_file = qrows
              /\ dmc.metrics_file = drows

\* the process died in the third call, after the append and before the write:
\* the two earlier records are persisted, the in-flight one is not
C17_Witness ==
    /\ probe.op = "record"
    /\ probe.died
    /\ Len(DLog) = 2
    /\ Len(dmc.metrics_file) = 1
    /\ Len(Log) = 1
    /\ Len(qmc.metrics_file) = 1

\* C18: a negative elapsed time is never accepted: no record of either log was
\* made from one.
C18_NegativeElapsedRejected ==
    /\ \A k \in 1..Len(Log) : Log[k].download_time_sec >= 0
    /\ \A k \in 1..Len(DLog) : DLog[k].download_time_sec >= 0

\* C20: a summary asked for when no record was recorded raises no error and is
\* a summary whose counts are all zero, for both calculators.
C20_EmptySummaryAllZero ==
    (probe.op = "record" /\ probe.summary /= None /\ Log = << >> /\ DLog = << >>) =>
        LET q == probe.summary[1].quic
            d == probe.summary[1].dash
        IN /\ ~q.raised /\ ~d.raised
           /\ q.summary /= None /\ d.summary /= None
           /\ q.summary[1].total_segments = 0 /\ q.summary[1].rebuffering_events = 0
           /\ d.summary[1].total_segments = 0 /\ d.summary[1].rebuffering_events = 0

\* the sample a record's call is to push: byte_count * 8 / elapsed, or 0
SampleOf(r) ==
    IF r.download_time_sec > 0 THEN Rate(r.segment_size_bytes * 8, r.download_time_sec)
    ELSE RInt(0)

\* the samples of the last ThroughputWindow records of a log, oldest first
LastSamples(m) ==
    [k \in 1..(Len(m) - Max(0, Len(m) - ThroughputWindow)) |->
        SampleOf(m[k + Max(0, Len(m) - ThroughputWindow)])]

\* C28: while every record call has returned, each throughput window holds one
\* sample per record of the log (the last five): byte_count * 8 / elapsed for
\* elapsed > 0 and 0 for elapsed <= 0, and each record stores the window mean
\* after its push.
C28_OneSamplePerRecord ==
    (probe.op = "record" /\ ~probe.died) =>
        /\ qmc.throughput_history = LastSamples(Log)
        /\ dmc.throughput_history = LastSamples(DLog)
        /\ \A k \in 1..Len(Log) :
               Log[k].smoothed_throughput_bps = mean(LastSamples(SubSeq(Log, 1, k)))
        /\ \A k \in 1..Len(DLog) :
               DLog[k].smoothed_throughput_bps = mean(LastSamples(SubSeq(DLog, 1, k)))

\* C19: a client constructed with an empty ladder is rejected: the empty list
\* is never replaced by another ladder, and no segment is requested.
C19_EmptyLadderRejected ==
    (probe.op = "construct" /\ probe.bitrates = << << >> >>) =>
        /\ self_bitrates = << >>
        /\ requests = << >>


\* the ABR decisions of the script that changed the representation: one between
\* two segment records made at different representations, and the last if it
\* moved away from the representation of the last segment record
ChangingDecisions ==
    Cardinality({k \in 3..Len(DLog) :
                    DLog[k].representation_id /= DLog[k - 1].representation_id})
    + (IF Len(DLog) >= 2
          /\ DLog[Len(DLog)].representation_id /= representations[current_rep].id
       THEN 1 ELSE 0)

\* C32: the summary printed at the end of the chunked-HTTP script reports as
\* bitrate switches the number of ABR decisions that changed the representation.
C32_SummaryCountsChangingDecisions ==
    d_pc = "done" =>
        dash_generate_summary_report(dmc).summary[1].bitrate_switches = ChangingDecisions

\* C34: in the chunked-HTTP script (segment duration 2) every record is made
\* with a buffer level of at least the segment duration, and the rebuffering
\* count is 1 from the first record, that of the initialization segment, on:
\* no later download time, however long, changes it.
C34_DashBufferNeverDry ==
    /\ dmc.segment_duration > 0
    /\ \A k \in 1..Len(DLog) :
          /\ DLog[k].buffer_level_sec >= dmc.segment_duration
          /\ DLog[k].rebuffering_count = 1
    /\ DLog /= << >> =>
          /\ DLog[1].segment_index = 0 /\ DLog[1].representation_id = "init"
          /\ dmc.buffer_level >= dmc.segment_duration
          /\ dmc.rebuffering_count = 1
    /\ DLog = << >> => dmc.rebuffering_count = 0

\* a segment took longer to download than the buffer held: the level was
\* floored at 0, credited, and the count stayed at 1
C34_Witness ==
    /\ Len(DLog) >= 2
    /\ DLog[1].buffer_level_sec = 2
    /\ DLog[2].download_time_sec = 3
    /\ DLog[2].buffer_level_sec = 2
    /\ DLog[2].rebuffering_count = 1
    /\ dmc.rebuffering_count = 1

(***************************************************************************)
(* Claims about VideoStreamClient.run, checked under SpecRun.              *)
(***************************************************************************)

\* C21: when a session is aborted while a segment is awaited, the step in
\* which the exception leaves the wait appends a timeout-shaped record
\* (is_complete = FALSE) for that segment to the log.
C21_AbortRecordsInFlightSegment ==
    [][(pc = "cancelling" /\ pc' = "closing" /\ segment_index < Len(requests)) =>
          /\ Len(qmc'.segment_metrics) = Len(qmc.segment_metrics) + 1
          /\ ~qmc'.segment_metrics[Len(qmc'.segment_metrics)].is_complete
          /\ qmc'.segment_metrics[Len(qmc'.segment_metrics)].segment_index
                 = segment_index]_vars

\* C22: a session that has ended (plan exhausted, timeout or connection error)
\* sent at most segments_per_bitrate requests and has emitted exactly one
\* summary, written when the metric log had its final length.
C22_OneSummaryAtSessionEnd ==
    run.phase = "reported" =>
        /\ Len(requests) <= segments_per_bitrate
        /\ Len(run.summaries) = 1
        /\ run.summaries[1].records = Len(Log)

\* the server answered the request for segment index i with its "file not
\* found" message: a chunk record of that size is in the log
NotFoundAnswered(i) ==
    \E k \in 1..Len(Log) :
        /\ Log[k].segment_index = i
        /\ ~Log[k].is_complete
        /\ Log[k].segment_size_bytes = error_msg_length(Log[k].bitrate \div 1000, i)

\* C24: a segment whose file the server could not find has no is_complete =
\* TRUE record, and playback_position (moved only by a completed record) has
\* not been set from it.
C24_NotFoundNeverCompletes ==
    \A i \in 0..segments_per_bitrate :
        NotFoundAnswered(i) =>
            /\ RecordsOf(i, TRUE) = {}
            /\ (i > 0 => qmc.playback_position /= i * SegmentDuration)


(***************************************************************************)
(* Claims about independent sessions, checked under SpecInstances.         *)
(***************************************************************************)

\* C23: no two calculator instances write to the same metrics file, and the
\* file of every instance holds the rows that instance has recorded, all of
\* them and in order, whatever instances were created meanwhile.
C23_InstancesShareNoFile ==
    /\ \A i, j \in 1..Len(calculators) :
           i /= j => calculators[i].metrics_file /= calculators[j].metrics_file
    /\ \A i \in 1..Len(calculators) :
           results_dir[calculators[i].metrics_file] = calculators[i].segment_metrics


(***************************************************************************)
(* Claims about the server's transfers, checked under SpecServer.          *)
(***************************************************************************)
RECURSIVE Contiguous(_, _)
\* the sends of s carry the bytes from offset on, one after another
Contiguous(s, offset) ==
    IF s = << >> THEN offset
    ELSE IF s[1].offset = offset THEN Contiguous(Tail(s), offset + s[1].length)
    ELSE -1

\* C38: for every file the server serves, of length 0 too, once the handler
\* has returned the sends on the stream are each at most 16 KiB, carry the
\* file's bytes in order and in full, and exactly one of them, the last, has
\* end_stream set (so that the client's wait ends by completion).
C38_FileSentWholeWithOneFin ==
    \A t \in 1..Len(server.transfers) :
        LET tr == server.transfers[t]
        IN (tr.file_len /= None /\ tr.returned) =>
              /\ \A k \in 1..Len(tr.sent) : tr.sent[k].length <= 16 * 1024
              /\ Contiguous(tr.sent, 0) = tr.file_len[1]
              /\ Cardinality({k \in 1..Len(tr.sent) : tr.sent[k].end_stream}) = 1
              /\ tr.sent /= << >> /\ tr.sent[Len(tr.sent)].end_stream

(***************************************************************************)
(* Claims about waiting, checked under the fair specifications.            *)
(***************************************************************************)

\* C9: every request of the chunked-HTTP script that is waiting for its
\* response eventually stops waiting, whether or not the response arrives.
C9_EveryRequestEnds ==
    (d_pc \in {"init_wait", "seg_wait"}) ~> (d_pc \notin {"init_wait", "seg_wait"})

====
